---- MODULE Spec2Model ----
(***************************************************************************)
(* State-machine model of the session engine of GameBot-Beano (Main.py):   *)
(* the two-player session store (games.json), the points ledger            *)
(* (points.json, negative_points_tracker.json), the update handlers that   *)
(* drive a session from /newgame to settlement, and the periodic           *)
(* check_game_inactivity job.                                              *)
(*                                                                         *)
(* Scheduling.  The Application is built without concurrent_updates        *)
(* (Main.py:4269), so updates are handled one after another: at most one   *)
(* handler coroutine is in progress (variable h).  The inactivity job is   *)
(* started on its own AsyncIOScheduler (Main.py:4257-4262) and runs on the *)
(* same event loop, so it interleaves with the handler in progress at      *)
(* every await that really suspends (calls of the messaging collaborator). *)
(* load_games_data_async / save_games_data_async take GAMES_DATA_LOCK only *)
(* around the synchronous file access (Main.py:778-790): the lock is never *)
(* held at a suspension point, so a load or a save is one atomic step and  *)
(* nothing else; what a coroutine loaded stays in its local games_data     *)
(* until it saves it back.                                                 *)
(*                                                                         *)
(* One group chat is modelled, with the two players 1 and 2 and a third    *)
(* member 3 who plays in no session.  No punishment rule is configured     *)
(* for the group (punishments.json is empty), and the messaging            *)
(* collaborator succeeds.                                                  *)
(***************************************************************************)
EXTENDS Integers, Sequences, FiniteSets, TLC

\* ------------------------------------------------------------------ bounds
MaxGames == 2
MaxTicks == 8
MaxStake == 1
StartBalance == 1
CounterCap == 2
MaxTod == 2
MaxBalance == 16
MaxFailedStrikes == 3

\* connect four is followed for its first MaxC4Pieces and last MaxC4Left moves
MaxC4Pieces == 8

MaxC4Left == 3

\* the faces of the die that are told apart
MaxDie == 2

\* connect four is followed from the empty board through this many moves
MaxFirstMoves == 3

\* ------------------------------------------------------- program constants
TimeStep == 60
ChallengeTimeout == 120
WarnAfter == 300
CancelAfter == 420
TodPenalty == 15
TodAward == 15

MaxNow == MaxTicks * TimeStep

Users == {1, 2, 3}
Players == {1, 2}
GameIds == 1..MaxGames

\* ------------------------------------------------------------------ stakes
NoStake == [type |-> "none", value |-> 0]

Points(n) == [type |-> "points", value |-> n]

Photo == [type |-> "photo", value |-> 0]

\* the amounts a player types as a points stake
StakeInputs == 0..(MaxStake + 1)

\* ------------------------------------------------------------------ boards
NoBoard == <<>>

TTTEmpty == [r \in 0..2 |-> [c \in 0..2 |-> 0]]

C4Empty == [r \in 0..5 |-> [c \in 0..6 |-> 0]]

\* ---------------------------------------------------------------- sessions
\* no roll is waiting for the other player's
NoRoll == [user_id |-> 0, value |-> 0]

NewSession(ch, op, t, rev, old) ==
    [status |-> "pending_game_selection",
     challenger_id |-> ch,
     opponent_id |-> op,
     game_type |-> "none",
     challenger_stake |-> NoStake,
     opponent_stake |-> NoStake,
     board |-> NoBoard,
     turn |-> 0,
     last_activity |-> t,
     warning_sent |-> FALSE,
     messages_to_delete |-> {},
     winner_id |-> 0,
     loser_id |-> 0,
     is_revenge |-> rev,
     old_game_id |-> old,
     rounds_to_play |-> 0,
     current_round |-> 0,
     challenger_score |-> 0,
     opponent_score |-> 0,
     last_roll |-> NoRoll]

NoGame == [NewSession(0, 0, 0, FALSE, 0) EXCEPT !.status = "absent"]

Present(gd, g) == gd[g].status # "absent"

NonComplete(gd, g) == Present(gd, g) /\ gd[g].status # "complete"

Other(game, u) == IF u = game.challenger_id THEN game.opponent_id ELSE game.challenger_id

VARIABLES
    games_file,        \* content of games.json: game id -> session or NoGame
    points_file,       \* content of points.json for the group: user -> balance
    negative_tracker,  \* negative_points_tracker.json: user -> strikes
    clock,             \* time.time()
    next_run,          \* time of the next run of the inactivity job
    next_id,           \* the next fresh game id (uuid4)
    h,                 \* the handler coroutine in progress
    s,                 \* the check_game_inactivity coroutine
    conv,              \* user -> state of the game-setup conversation
    user_data,         \* user -> context.user_data (game_id, player_role)
    live,              \* game id -> inline keyboards still attached to a message
    audit,             \* game id -> what has been done on behalf of the session
    tod_file,          \* active_tod_games.json: truth-or-dare id -> session or NoTod
    punishments,       \* punishments.json for the group: the thresholds of its rules, in order
    punishment_status, \* punishment_status.json: user -> thresholds of the armed rules
    ad,                \* caller -> its add_user_points call in progress
    tod_menu,          \* the truth/dare keyboards not yet answered, and the next fresh id
    notes              \* what the latest step of the ledger sent out, and counts

ledger_vars == <<tod_file, punishments, punishment_status, ad, tod_menu, notes>>

vars == <<games_file, points_file, negative_tracker, clock, next_run, next_id,
          h, s, conv, user_data, live, audit, ledger_vars>>

Min(a, b) == IF a < b THEN a ELSE b

\* ------------------------------------------------------------ coroutines
NoData == <<>>

HIdle == [pc |-> "idle", gid |-> 0, user |-> 0, data |-> NoData, w |-> 0, l |-> 0,
          board |-> NoBoard]

SIdle == [pc |-> "idle", now |-> 0, data |-> NoData, todo |-> <<>>, gid |-> 0, inner |-> NoData]

NoUserData == [game_id |-> 0, player_role |-> "none"]

NoAudit == [ch |-> 0, op |-> 0, settles |-> 0, completes |-> 0, nd |-> 0, by |-> "none", last |-> <<>>,
            started |-> FALSE, moved |-> 0, mover |-> 0, flip |-> 0]

\* ------------------------------------------------- truth-or-dare sessions
TodIds == 1..MaxTod

NoTod == [status |-> "absent", user_id |-> 0, type |-> "none", timestamp |-> 0,
          warning_sent |-> FALSE]

\* the session tod_choice_handler stores for user u at time t
PendingAcceptance(u, type, t) ==
    [status |-> "pending_acceptance", user_id |-> u, type |-> type, timestamp |-> t,
     warning_sent |-> FALSE]

\* a session whose subject has accepted the task, a dare, at time t
AwaitingProof(u, t) ==
    [PendingAcceptance(u, "dare", t) EXCEPT !.status = "awaiting_proof"]

\* no keyboard of /dareme open, no session stored yet
NoMenu == [open |-> [u \in Users |-> 0], next_id |-> 1]

\* ------------------------------------------- add_user_points in progress
\* the two coroutines that may be inside add_user_points: the handler in
\* progress and the inactivity job
Callers == {"h", "s"}

OtherCaller(c) == IF c = "h" THEN "s" ELSE "h"

\* the rules of a group that has any, each named by its threshold
Rules == <<0>>

Thresholds == {Rules[i] : i \in DOMAIN Rules}

\* what an admin types in the add-points and remove-points flows
PointValues == {1, TodPenalty}

\* the users whose points the admin changes
Subjects == {1}

\* The locals of a call: old and new are old_points and new_points, rule the
\* threshold of the rule being notified and rules those still to be looked
\* at, triggered the list read by get_triggered_punishments_for_user,
\* strikes is current_strikes and tracker the dict check_for_negative_points
\* loaded.  c0 is the stored strike counter at the call and alone tells
\* whether no step of the other caller fell inside the call.
\* ret is the handler as it goes on when the call has returned.
NoFrame == [pc |-> "idle", user |-> 0, old |-> 0, new |-> 0, rule |-> 0, rules |-> <<>>,
            triggered |-> {}, strikes |-> 0, tracker |-> <<>>, c0 |-> 0, alone |-> TRUE,
            ret |-> HIdle]

NoNotes == [ev |-> {},
            since |-> [u \in Users |-> [r \in Thresholds |-> 0]],
            charged |-> [t \in TodIds |-> 0],
            awarded |-> [t \in TodIds |-> 0],
            raised |-> FALSE]

\* no truth-or-dare session, no punishment rule, nobody in add_user_points
LedgerIdle ==
    /\ tod_file = [t \in TodIds |-> NoTod]
    /\ punishments = <<>>
    /\ punishment_status = [u \in Users |-> {}]
    /\ ad = [c \in Callers |-> NoFrame]
    /\ tod_menu = NoMenu
    /\ notes = NoNotes

Init ==
    /\ LedgerIdle
    /\ games_file = [g \in GameIds |-> NoGame]
    /\ points_file = [u \in Users |-> StartBalance]
    /\ negative_tracker = [u \in Users |-> 0]
    /\ clock = 0
    /\ next_run = TimeStep
    /\ next_id = 1
    /\ h = HIdle
    /\ s = SIdle
    /\ conv = [u \in Users |-> "end"]
    /\ user_data = [u \in Users |-> NoUserData]
    /\ live = [g \in GameIds |-> {}]
    /\ audit = [g \in GameIds |-> NoAudit]

\* ------------------------------------------------------------ the ledger
\* add_user_points with check_for_negative_points; check_for_punishment has
\* no rule to evaluate.  Yields the new balances p and the new strikes t.
add_user_points(pf, nt, u, delta) ==
    LET new_points == pf[u] + delta
        pf1 == [pf EXCEPT ![u] = new_points]
        nt1 == IF new_points >= 0 /\ nt[u] # 0 THEN [nt EXCEPT ![u] = 0] ELSE nt
        current_strikes == nt1[u] + 1
    IN  IF new_points < 0
        THEN IF current_strikes < 3
             THEN [p |-> [pf1 EXCEPT ![u] = 0], t |-> [nt1 EXCEPT ![u] = current_strikes]]
             ELSE [p |-> pf1, t |-> [nt1 EXCEPT ![u] = 0]]
        ELSE [p |-> pf1, t |-> nt1]

\* The ledger after the add_user_points calls of effs, in order; an effect
\* with media = TRUE is a forwarded media stake and touches no balance.
RECURSIVE ApplyEffects(_, _, _)
ApplyEffects(pf, nt, effs) ==
    IF effs = <<>> THEN [p |-> pf, t |-> nt]
    ELSE LET e == Head(effs)
             r == IF e.media THEN [p |-> pf, t |-> nt]
                  ELSE add_user_points(pf, nt, e.user, e.delta)
         IN  ApplyEffects(r.p, r.t, Tail(effs))

Delta(u, d) == [user |-> u, delta |-> d, media |-> FALSE]

Media(u) == [user |-> u, delta |-> 0, media |-> TRUE]

NumDeltas(effs) == Cardinality({i \in DOMAIN effs : ~effs[i].media})

\* ------------------------------------------------------- store helpers
update_game_activity(gf, g, t) ==
    IF Present(gf, g)
    THEN [gf EXCEPT ![g].last_activity = t, ![g].warning_sent = FALSE]
    ELSE gf

\* audit after the handler has accepted a move of user u in session g
Moved(a, g, u) == [a EXCEPT ![g].mover = u, ![g].flip = 1 - @]

\* The second half of send_and_track_message: load, append, save.
track(gf, g, m) ==
    IF Present(gf, g)
    THEN [gf EXCEPT ![g].messages_to_delete = @ \cup {m}]
    ELSE gf

\* audit after games.json changes from old to new: a session whose stored
\* status turns 'complete' has been completed once more.
Saved(a, old, new) ==
    [g \in GameIds |->
        IF old[g].status # "complete" /\ new[g].status = "complete"
        THEN [a[g] EXCEPT !.completes = Min(@ + 1, CounterCap)]
        ELSE a[g]]

\* audit after a routine named by applied effs on behalf of session g.
Charged(a, g, by, effs) ==
    [a EXCEPT ![g].nd = @ + NumDeltas(effs),
              ![g].settles = IF by \in {"over", "draw", "cancel"} /\ effs # <<>>
                             THEN Min(@ + 1, CounterCap) ELSE @,
              ![g].by = by,
              ![g].last = effs]

ActiveInGroup(gd) == {g \in GameIds : NonComplete(gd, g)}

\* ------------------------------------------------- messages and keyboards
\* A tracked message is named by its kind; live[g] holds <<kind, user>> for
\* each message of session g that still carries an inline keyboard, user
\* being the private chat it was sent to (0: the group chat).
WizardKinds == {"setup_c", "setup_o", "confirm_c", "confirm_o"}

WizardLive(u, g) == \E k \in WizardKinds : <<k, u>> \in live[g]

NoWizard(lv, u) == {e \in lv : ~(e[1] \in WizardKinds /\ e[2] = u)}

Role(u) == IF user_data[u].player_role = "opponent" THEN "o" ELSE "c"

ConfirmKind(r) == IF r = "o" THEN "confirm_o" ELSE "confirm_c"

SelectableGames == {"tictactoe", "connect_four"}

Challenges == {<<1, 2>>}

\* ------------------------------------------------------------- /newgame
newgame_command ==
    /\ h.pc = "idle"
    /\ next_id <= MaxGames
    /\ ActiveInGroup(games_file) = {}
    /\ \E pair \in Challenges :
          /\ games_file' = [games_file EXCEPT ![next_id] =
                                NewSession(pair[1], pair[2], clock, FALSE, 0)]
          /\ audit' = [audit EXCEPT ![next_id].ch = pair[1], ![next_id].op = pair[2]]
          /\ h' = [HIdle EXCEPT !.pc = "ng_track1", !.gid = next_id, !.user = pair[1]]
    /\ next_id' = next_id + 1
    /\ UNCHANGED <<points_file, negative_tracker, clock, next_run, s, conv, user_data, live>>
    /\ UNCHANGED ledger_vars

newgame_track_notice ==
    /\ h.pc = "ng_track1"
    /\ games_file' = track(games_file, h.gid, "notice")
    /\ h' = [h EXCEPT !.pc = "ng_track2"]
    /\ UNCHANGED <<points_file, negative_tracker, clock, next_run, next_id, s, conv,
                   user_data, live, audit>>
    /\ UNCHANGED ledger_vars

newgame_track_setup ==
    /\ h.pc = "ng_track2"
    /\ games_file' = track(games_file, h.gid, "setup_c")
    /\ live' = [live EXCEPT ![h.gid] = @ \cup {<<"setup_c", h.user>>}]
    /\ h' = HIdle
    /\ UNCHANGED <<points_file, negative_tracker, clock, next_run, next_id, s, conv,
                   user_data, audit>>
    /\ UNCHANGED ledger_vars

\* ------------------------------------------------ the setup conversation
start_game_setup ==
    /\ h.pc = "idle"
    /\ \E u \in Players, g \in GameIds :
          /\ conv[u] = "end"
          /\ <<"setup_c", u>> \in live[g]
          /\ user_data' = [user_data EXCEPT ![u].game_id = g]
          /\ conv' = [conv EXCEPT ![u] = "game_sel"]
    /\ UNCHANGED <<games_file, points_file, negative_tracker, clock, next_run, next_id,
                   h, s, live, audit>>
    /\ UNCHANGED ledger_vars

restart_game_setup ==
    /\ h.pc = "idle"
    /\ \E u \in Players, g \in GameIds :
          /\ conv[u] = "confirm"
          /\ \E r \in {"c", "o"} : <<ConfirmKind(r), u>> \in live[g]
          /\ user_data' = [user_data EXCEPT ![u].game_id = g]
          /\ conv' = [conv EXCEPT ![u] = "game_sel"]
    /\ UNCHANGED <<games_file, points_file, negative_tracker, clock, next_run, next_id,
                   h, s, live, audit>>
    /\ UNCHANGED ledger_vars

InitBoard(game, game_type) ==
    CASE game_type = "connect_four" ->
            [game EXCEPT !.game_type = game_type, !.board = C4Empty, !.turn = game.challenger_id]
      [] game_type = "tictactoe" ->
            [game EXCEPT !.game_type = game_type, !.board = TTTEmpty, !.turn = game.challenger_id]
      [] OTHER -> [game EXCEPT !.game_type = game_type]

game_selection ==
    /\ h.pc = "idle"
    /\ \E u \in Players, g \in GameIds, game_type \in SelectableGames :
          /\ conv[u] = "game_sel"
          /\ WizardLive(u, g)
          /\ Present(games_file, g)
          /\ LET gf1 == update_game_activity(games_file, g, clock)
             IN  games_file' = [gf1 EXCEPT ![g] = InitBoard(gf1[g], game_type)]
          /\ conv' = [conv EXCEPT ![u] = IF game_type = "dice" THEN "round_sel" ELSE "stake_type"]
    /\ UNCHANGED <<points_file, negative_tracker, clock, next_run, next_id, h, s,
                   user_data, live, audit>>
    /\ UNCHANGED ledger_vars

stake_type_selection ==
    /\ h.pc = "idle"
    /\ \E u \in Players, g \in GameIds, stake_type \in {"points", "media"} :
          /\ conv[u] = "stake_type"
          /\ WizardLive(u, g)
          /\ user_data' = [user_data EXCEPT ![u].game_id = g]
          /\ conv' = [conv EXCEPT ![u] = IF stake_type = "points" THEN "stake_pts" ELSE "stake_media"]
          /\ live' = [live EXCEPT ![g] = NoWizard(@, u)]
    /\ UNCHANGED <<games_file, points_file, negative_tracker, clock, next_run, next_id,
                   h, s, audit>>
    /\ UNCHANGED ledger_vars

SetStake(game, role, stake) ==
    IF role = "o" THEN [game EXCEPT !.opponent_stake = stake]
    ELSE [game EXCEPT !.challenger_stake = stake]

\* The text is a number or not: int() raises on a text that is none, before
\* anything is stored, and the handler answers with the hint alone.
stake_submission_points ==
    /\ h.pc = "idle"
    /\ \E u \in Players, number \in BOOLEAN, points \in StakeInputs :
          LET g == user_data[u].game_id
              gf1 == update_game_activity(games_file, g, clock)
          IN  /\ conv[u] = "stake_pts"
              /\ g \in GameIds
              /\ Present(games_file, g)
              /\ ~number => points = 0
              /\ IF ~number
                 THEN /\ games_file' = games_file
                      /\ h' = [HIdle EXCEPT !.pc = "hint", !.gid = g, !.user = u]
                 ELSE IF points <= 0 \/ points_file[u] < points
                 THEN /\ games_file' = gf1
                      /\ h' = [HIdle EXCEPT !.pc = "hint", !.gid = g, !.user = u]
                 ELSE /\ games_file' = [gf1 EXCEPT ![g] = SetStake(gf1[g], Role(u), Points(points))]
                      /\ h' = [HIdle EXCEPT !.pc = "show_confirmation", !.gid = g, !.user = u]
    /\ UNCHANGED <<points_file, negative_tracker, clock, next_run, next_id, s, conv,
                   user_data, live, audit>>
    /\ UNCHANGED ledger_vars

stake_submission_media ==
    /\ h.pc = "idle"
    /\ \E u \in Players :
          LET g == user_data[u].game_id
              gf1 == update_game_activity(games_file, g, clock)
          IN  /\ conv[u] = "stake_media"
              /\ g \in GameIds
              /\ Present(games_file, g)
              /\ games_file' = [gf1 EXCEPT ![g] = SetStake(gf1[g], Role(u), Photo)]
              /\ h' = [HIdle EXCEPT !.pc = "show_confirmation", !.gid = g, !.user = u]
    /\ UNCHANGED <<points_file, negative_tracker, clock, next_run, next_id, s, conv,
                   user_data, live, audit>>
    /\ UNCHANGED ledger_vars

\* The session named by context.user_data['game_id'] is no longer stored when
\* the stake arrives: update_game_activity saves nothing, and for a number
\* games_data[game_id] raises KeyError, which `except ValueError' does not
\* catch; for a text that is no number the hint is sent and not tracked.
stake_submission_points_absent ==
    /\ h.pc = "idle"
    /\ \E u \in Players, number \in BOOLEAN :
          LET g == user_data[u].game_id
          IN  /\ conv[u] = "stake_pts"
              /\ g \in GameIds
              /\ ~Present(games_file, g)
              /\ notes' = [notes EXCEPT !.raised = @ \/ number]
    /\ UNCHANGED <<games_file, points_file, negative_tracker, clock, next_run, next_id,
                   h, s, conv, user_data, live, audit>>
    /\ UNCHANGED <<tod_file, punishments, punishment_status, ad, tod_menu>>

\* The same for a media stake: a photo, video or voice note reaches
\* games_data[game_id] and raises KeyError, anything else gets the hint.
stake_submission_media_absent ==
    /\ h.pc = "idle"
    /\ \E u \in Players, media \in BOOLEAN :
          LET g == user_data[u].game_id
          IN  /\ conv[u] = "stake_media"
              /\ g \in GameIds
              /\ ~Present(games_file, g)
              /\ notes' = [notes EXCEPT !.raised = @ \/ media]
    /\ UNCHANGED <<games_file, points_file, negative_tracker, clock, next_run, next_id,
                   h, s, conv, user_data, live, audit>>
    /\ UNCHANGED <<tod_file, punishments, punishment_status, ad, tod_menu>>

\* the hint sent by send_and_track_message after a rejected submission
track_hint ==
    /\ h.pc = "hint"
    /\ games_file' = track(games_file, h.gid, "hint")
    /\ h' = HIdle
    /\ UNCHANGED <<points_file, negative_tracker, clock, next_run, next_id, s, conv,
                   user_data, live, audit>>
    /\ UNCHANGED ledger_vars

show_confirmation ==
    /\ h.pc = "show_confirmation"
    /\ games_file' = track(games_file, h.gid, ConfirmKind(Role(h.user)))
    /\ live' = [live EXCEPT ![h.gid] = @ \cup {<<ConfirmKind(Role(h.user)), h.user>>}]
    /\ conv' = [conv EXCEPT ![h.user] = "confirm"]
    /\ h' = HIdle
    /\ UNCHANGED <<points_file, negative_tracker, clock, next_run, next_id, s,
                   user_data, audit>>
    /\ UNCHANGED ledger_vars

\* ------------------------------------------------ delete_tracked_messages
Deleted(lv, msgs) == {e \in lv : e[1] \notin msgs}

\* The handler coroutine once it has saved gf and entered
\* delete_tracked_messages(g): it suspends in the deletion loop only if the
\* list it loaded is not empty.
HFinish(gf, g) ==
    IF Present(gf, g) /\ gf[g].messages_to_delete # {}
    THEN [HIdle EXCEPT !.pc = "dtm", !.gid = g, !.data = gf]
    ELSE HIdle

delete_tracked_messages ==
    /\ h.pc = "dtm"
    /\ LET new == [h.data EXCEPT ![h.gid].messages_to_delete = {}]
       IN  /\ games_file' = new
           /\ audit' = Saved(audit, games_file, new)
    /\ live' = [live EXCEPT ![h.gid] = Deleted(@, h.data[h.gid].messages_to_delete)]
    /\ h' = HIdle
    /\ UNCHANGED <<points_file, negative_tracker, clock, next_run, next_id, s, conv, user_data>>
    /\ UNCHANGED ledger_vars

\* ---------------------------------------------- confirmation of the setup
\* confirm_game_setup with role 'challenger': send_challenge_to_opponent
confirm_game_setup_challenger ==
    /\ h.pc = "idle"
    /\ \E u \in Players, g \in GameIds :
          /\ conv[u] = "confirm"
          /\ <<"confirm_c", u>> \in live[g]
          /\ Present(games_file, g)
          /\ LET gf1 == update_game_activity(games_file, g, clock)
                 new == [gf1 EXCEPT ![g].status = "pending_opponent_acceptance"]
             IN  /\ games_file' = new
                 /\ audit' = Saved(audit, games_file, new)
          /\ h' = [HIdle EXCEPT !.pc = "send_challenge", !.gid = g, !.user = u]
    /\ UNCHANGED <<points_file, negative_tracker, clock, next_run, next_id, s, conv,
                   user_data, live>>
    /\ UNCHANGED ledger_vars

send_challenge_to_opponent ==
    /\ h.pc = "send_challenge"
    /\ games_file' = track(games_file, h.gid, "challenge")
    /\ live' = [live EXCEPT ![h.gid] = (@ \ {<<"confirm_c", h.user>>}) \cup {<<"challenge", 0>>}]
    /\ conv' = [conv EXCEPT ![h.user] = "end"]
    /\ h' = HIdle
    /\ UNCHANGED <<points_file, negative_tracker, clock, next_run, next_id, s,
                   user_data, audit>>
    /\ UNCHANGED ledger_vars

\* confirm_game_setup with role 'opponent': the game starts
confirm_game_setup_opponent ==
    /\ h.pc = "idle"
    /\ \E u \in Players, g \in GameIds :
          /\ conv[u] = "confirm"
          /\ <<"confirm_o", u>> \in live[g]
          /\ games_file' = update_game_activity(games_file, g, clock)
          /\ live' = [live EXCEPT ![g] = @ \ {<<"confirm_o", u>>}]
          /\ h' = [HIdle EXCEPT !.pc = "start_game", !.gid = g, !.user = u]
    /\ UNCHANGED <<points_file, negative_tracker, clock, next_run, next_id, s, conv,
                   user_data, audit>>
    /\ UNCHANGED ledger_vars

\* start_game up to its first save; games_data[game_id] raises KeyError when
\* the session is gone, which ends the handler with the conversation as is.
start_game ==
    /\ h.pc = "start_game"
    /\ IF Present(games_file, h.gid)
       THEN /\ games_file' = [games_file EXCEPT ![h.gid].status = "active"]
            /\ audit' = [audit EXCEPT ![h.gid].started = TRUE]
            /\ h' = [h EXCEPT !.pc = "start_game_on"]
       ELSE /\ games_file' = games_file
            /\ audit' = audit
            /\ h' = HIdle
    /\ UNCHANGED <<points_file, negative_tracker, clock, next_run, next_id, s, conv,
                   user_data, live>>
    /\ UNCHANGED ledger_vars

start_game_on ==
    /\ h.pc = "start_game_on"
    /\ games_file' = track(games_file, h.gid, "on")
    /\ h' = [h EXCEPT !.pc = "start_game_board"]
    /\ UNCHANGED <<points_file, negative_tracker, clock, next_run, next_id, s, conv,
                   user_data, live, audit>>
    /\ UNCHANGED ledger_vars

start_game_board ==
    /\ h.pc = "start_game_board"
    /\ games_file' = track(games_file, h.gid, "board")
    /\ live' = [live EXCEPT ![h.gid] = @ \cup {<<"board", 0>>}]
    /\ conv' = [conv EXCEPT ![h.user] = "end"]
    /\ h' = HIdle
    /\ UNCHANGED <<points_file, negative_tracker, clock, next_run, next_id, s,
                   user_data, audit>>
    /\ UNCHANGED ledger_vars

\* ------------------------------------------------- the opponent's answer
StakeEffects(u, stake) ==
    CASE stake.type = "points" -> <<Delta(u, -stake.value)>>
      [] stake.type = "none" -> <<>>
      [] OTHER -> <<Media(u)>>

challenge_response_handler ==
    /\ h.pc = "idle"
    /\ \E u \in Users, g \in GameIds, response_type \in {"accept", "refuse"} :
          LET gf1 == update_game_activity(games_file, g, clock)
          IN  /\ <<"challenge", 0>> \in live[g]
              /\ games_file' = IF Present(gf1, g) /\ u = gf1[g].opponent_id /\ response_type = "accept"
                               THEN [gf1 EXCEPT ![g].status = "pending_opponent_stake"]
                               ELSE gf1
              /\ live' = IF ~Present(gf1, g) \/ (u = gf1[g].opponent_id /\ response_type = "accept")
                         THEN [live EXCEPT ![g] = @ \ {<<"challenge", 0>>}]
                         ELSE live
              /\ h' = CASE ~Present(gf1, g) \/ u # gf1[g].opponent_id -> HIdle
                        [] response_type = "accept" ->
                              [HIdle EXCEPT !.pc = "accepted", !.gid = g, !.user = u]
                        [] OTHER ->
                              [HIdle EXCEPT !.pc = "refused", !.gid = g, !.user = u, !.data = gf1]
    /\ UNCHANGED <<points_file, negative_tracker, clock, next_run, next_id, s, conv,
                   user_data, audit>>
    /\ UNCHANGED ledger_vars

challenge_accepted ==
    /\ h.pc = "accepted"
    /\ games_file' = track(games_file, h.gid, "setup_o")
    /\ live' = [live EXCEPT ![h.gid] = @ \cup {<<"setup_o", h.user>>}]
    /\ h' = HIdle
    /\ UNCHANGED <<points_file, negative_tracker, clock, next_run, next_id, s, conv,
                   user_data, audit>>
    /\ UNCHANGED ledger_vars

\* a refusal that would charge the opponent what the challenger staked as
\* well: C12 fails on it
RefusalEffectsBoth(gd, g) ==
    StakeEffects(gd[g].challenger_id, gd[g].challenger_stake)
        \o StakeEffects(gd[g].opponent_id, gd[g].challenger_stake)

\* what a refusal forfeits: for a revenge session the old winner's stake of
\* the old session goes to the old loser; otherwise the challenger's stake.
RefusalEffects(gd, g) ==
    LET game == gd[g]
        old == gd[game.old_game_id]
        refuser_stake == IF old.challenger_id = old.winner_id
                         THEN old.challenger_stake ELSE old.opponent_stake
    IN  IF game.is_revenge
        THEN IF game.old_game_id \notin GameIds \/ ~Present(gd, game.old_game_id) THEN <<>>
             ELSE CASE refuser_stake.type = "points" ->
                          <<Delta(old.loser_id, refuser_stake.value),
                            Delta(old.winner_id, -refuser_stake.value)>>
                    [] refuser_stake.type = "none" -> <<>>
                    [] OTHER -> <<Media(old.winner_id)>>
        ELSE StakeEffects(game.challenger_id, game.challenger_stake)

\* challenger_stake['type'] raises TypeError when no stake is staged
RefusalRaises(gd, g) == ~gd[g].is_revenge /\ gd[g].challenger_stake.type = "none"

challenge_refused ==
    /\ h.pc = "refused"
    /\ IF RefusalRaises(h.data, h.gid)
       THEN UNCHANGED <<games_file, points_file, negative_tracker, live, audit>>
       ELSE LET effs == RefusalEffects(h.data, h.gid)
                r == ApplyEffects(points_file, negative_tracker, effs)
                new == [h.data EXCEPT ![h.gid] = NoGame]
            IN  /\ points_file' = r.p
                /\ negative_tracker' = r.t
                /\ games_file' = new
                /\ audit' = Saved(Charged(audit, h.gid, "refuse", effs), games_file, new)
                /\ live' = [live EXCEPT ![h.gid] = @ \ {<<"challenge", 0>>}]
    /\ h' = HIdle
    /\ UNCHANGED <<clock, next_run, next_id, s, conv, user_data>>
    /\ UNCHANGED ledger_vars

start_opponent_setup ==
    /\ h.pc = "idle"
    /\ \E u \in Players, g \in GameIds :
          /\ conv[u] = "end"
          /\ <<"setup_o", u>> \in live[g]
          /\ IF Present(games_file, g) /\ games_file[g].opponent_id = u
             THEN /\ user_data' = [user_data EXCEPT ![u] = [game_id |-> g, player_role |-> "opponent"]]
                  /\ conv' = [conv EXCEPT ![u] = "stake_type"]
                  /\ live' = live
             ELSE /\ live' = [live EXCEPT ![g] = @ \ {<<"setup_o", u>>}]
                  /\ UNCHANGED <<user_data, conv>>
    /\ UNCHANGED <<games_file, points_file, negative_tracker, clock, next_run, next_id,
                   h, s, audit>>
    /\ UNCHANGED ledger_vars

\* cancel_game_setup: delete_tracked_messages, then the session is removed
cancel_game_setup ==
    /\ h.pc = "idle"
    /\ \E u \in Players :
          LET g == user_data[u].game_id
          IN  /\ conv[u] # "end"
              /\ g \in GameIds
              /\ live' = [live EXCEPT ![g] = NoWizard(@, u)]
              /\ IF Present(games_file, g) /\ games_file[g].messages_to_delete # {}
                 THEN /\ h' = [HIdle EXCEPT !.pc = "cancel_dtm", !.gid = g, !.user = u,
                                            !.data = games_file]
                      /\ UNCHANGED <<games_file, conv, user_data>>
                 ELSE /\ games_file' = [games_file EXCEPT ![g] = NoGame]
                      /\ conv' = [conv EXCEPT ![u] = "end"]
                      /\ user_data' = [user_data EXCEPT ![u] = NoUserData]
                      /\ h' = HIdle
    /\ UNCHANGED <<points_file, negative_tracker, clock, next_run, next_id, s, audit>>
    /\ UNCHANGED ledger_vars

cancel_game_setup_delete ==
    /\ h.pc = "cancel_dtm"
    /\ LET new == [h.data EXCEPT ![h.gid] = NoGame]
       IN  /\ games_file' = new
           /\ audit' = Saved(audit, games_file, new)
    /\ live' = [live EXCEPT ![h.gid] = Deleted(@, h.data[h.gid].messages_to_delete)]
    /\ conv' = [conv EXCEPT ![h.user] = "end"]
    /\ user_data' = [user_data EXCEPT ![h.user] = NoUserData]
    /\ h' = HIdle
    /\ UNCHANGED <<points_file, negative_tracker, clock, next_run, next_id, s>>
    /\ UNCHANGED ledger_vars

\* ------------------------------------------------------------ settlement
LoserStake(game, loser_id) ==
    IF game.challenger_id = loser_id THEN game.challenger_stake ELSE game.opponent_stake

\* handle_game_over as it would settle if it read the winner's stake where it
\* reads the loser's: C7 fails on it
GameOverEffectsWinnerStake(game, winner_id, loser_id) ==
    LET winner_stake == LoserStake(game, winner_id)
    IN  IF winner_stake.type = "points"
        THEN <<Delta(winner_id, winner_stake.value), Delta(loser_id, -winner_stake.value)>>
        ELSE <<Media(loser_id)>>

\* the stake effects of handle_game_over
GameOverEffects(game, winner_id, loser_id) ==
    LET loser_stake == LoserStake(game, loser_id)
    IN  IF loser_stake.type = "points"
        THEN <<Delta(winner_id, loser_stake.value), Delta(loser_id, -loser_stake.value)>>
        ELSE <<Media(loser_id)>>

\* a cancellation that would charge the challenger alone: C10 fails on it
ForfeitChallengerOnly(game) ==
    StakeEffects(game.challenger_id, game.challenger_stake)

\* the stake effects of handle_game_draw and handle_game_cancellation
ForfeitEffects(game) ==
    StakeEffects(game.challenger_id, game.challenger_stake)
        \o StakeEffects(game.opponent_id, game.opponent_stake)

\* handle_game_over up to its first await: h after the load.  A missing
\* session raises KeyError and a missing loser stake returns at once.
GameOverLoad(gf, g, winner_id, loser_id) ==
    IF ~Present(gf, g) \/ LoserStake(gf[g], loser_id).type = "none"
    THEN HIdle
    ELSE [HIdle EXCEPT !.pc = "game_over", !.gid = g, !.w = winner_id, !.l = loser_id,
                       !.data = gf]

handle_game_over_load ==
    /\ h.pc = "game_over_load"
    /\ h' = GameOverLoad(games_file, h.gid, h.w, h.l)
    /\ UNCHANGED <<games_file, points_file, negative_tracker, clock, next_run, next_id,
                   s, conv, user_data, live, audit>>
    /\ UNCHANGED ledger_vars

handle_game_over ==
    /\ h.pc = "game_over"
    /\ audit[h.gid].settles < CounterCap
    /\ LET effs == GameOverEffects(h.data[h.gid], h.w, h.l)
           r == ApplyEffects(points_file, negative_tracker, effs)
           new == [h.data EXCEPT ![h.gid].winner_id = h.w, ![h.gid].loser_id = h.l,
                                 ![h.gid].status = "complete"]
       IN  /\ points_file' = r.p
           /\ negative_tracker' = r.t
           /\ games_file' = new
           /\ audit' = Saved(Charged(audit, h.gid, "over", effs), games_file, new)
           /\ h' = HFinish(new, h.gid)
    /\ live' = [live EXCEPT ![h.gid] = @ \cup {<<"revenge", 0>>}]
    /\ UNCHANGED <<clock, next_run, next_id, s, conv, user_data>>
    /\ UNCHANGED ledger_vars

handle_game_draw_load ==
    /\ h.pc = "game_draw_load"
    /\ h' = IF Present(games_file, h.gid)
            THEN [h EXCEPT !.pc = "game_draw", !.data = games_file]
            ELSE HIdle
    /\ UNCHANGED <<games_file, points_file, negative_tracker, clock, next_run, next_id,
                   s, conv, user_data, live, audit>>
    /\ UNCHANGED ledger_vars

handle_game_draw ==
    /\ h.pc = "game_draw"
    /\ audit[h.gid].settles < CounterCap
    /\ LET effs == ForfeitEffects(h.data[h.gid])
           r == ApplyEffects(points_file, negative_tracker, effs)
           new == [h.data EXCEPT ![h.gid].status = "complete"]
       IN  /\ points_file' = r.p
           /\ negative_tracker' = r.t
           /\ games_file' = new
           /\ audit' = Saved(Charged(audit, h.gid, "draw", effs), games_file, new)
           /\ h' = HFinish(new, h.gid)
    /\ UNCHANGED <<clock, next_run, next_id, s, conv, user_data, live>>
    /\ UNCHANGED ledger_vars

\* ----------------------------------------------------------- tic-tac-toe
Line3(board, p, cells) == \A rc \in cells : board[rc[1]][rc[2]] = p

\* the check without the diagonal from the top right to the bottom left
check_tictactoe_win_one_diagonal(board, player_num) ==
    \/ \E i \in 0..2 : Line3(board, player_num, {<<i, j>> : j \in 0..2})
    \/ \E i \in 0..2 : Line3(board, player_num, {<<j, i>> : j \in 0..2})
    \/ Line3(board, player_num, {<<i, i>> : i \in 0..2})

check_tictactoe_win(board, player_num) ==
    \/ \E i \in 0..2 : Line3(board, player_num, {<<i, j>> : j \in 0..2})
    \/ \E i \in 0..2 : Line3(board, player_num, {<<j, i>> : j \in 0..2})
    \/ Line3(board, player_num, {<<i, i>> : i \in 0..2})
    \/ Line3(board, player_num, {<<i, 2 - i>> : i \in 0..2})

check_tictactoe_draw(board) == \A r \in 0..2, c \in 0..2 : board[r][c] # 0

\* whether the handler turns the press of u on cell (r, c) down, gf being the
\* store after its update_game_activity
TTTRejected(gf, u, g, r, c) ==
    \/ ~Present(gf, g)
    \/ gf[g].status # "active"
    \/ gf[g].turn # u
    \/ gf[g].board[r][c] # 0

\* whether a move handler answers 'This game is no longer active.', an edit
\* that takes the keyboard off the board message
Inactive(gf, g) == ~Present(gf, g) \/ gf[g].status # "active"

\* A press by user u on cell (r, c) of the board of session g; the button
\* of a cell is a move button while the cell is empty.
TTTMove(u, g, r, c) ==
    LET gf1 == update_game_activity(games_file, g, clock)
        game == gf1[g]
        player_num == IF u = game.challenger_id THEN 1 ELSE 2
        board == [game.board EXCEPT ![r][c] = player_num]
        rejected == TTTRejected(gf1, u, g, r, c)
        moved == [gf1 EXCEPT ![g].board = board, ![g].turn = Other(game, u)]
    IN  /\ <<"board", 0>> \in live[g]
        /\ Present(games_file, g) => /\ games_file[g].game_type = "tictactoe"
                                     /\ games_file[g].board[r][c] = 0
        /\ CASE rejected ->
                   /\ games_file' = gf1
                   /\ h' = HIdle
             [] ~rejected /\ check_tictactoe_win(board, player_num) ->
                   /\ games_file' = gf1
                   /\ h' = [HIdle EXCEPT !.pc = "game_over_load", !.gid = g, !.w = u,
                                         !.l = Other(game, u)]
             [] ~rejected /\ ~check_tictactoe_win(board, player_num)
                          /\ check_tictactoe_draw(board) ->
                   /\ games_file' = gf1
                   /\ h' = [HIdle EXCEPT !.pc = "game_draw_load", !.gid = g]
             [] OTHER ->
                   /\ games_file' = moved
                   /\ h' = HIdle
        /\ live' = IF Inactive(gf1, g)
                   THEN [live EXCEPT ![g] = @ \ {<<"board", 0>>}]
                   ELSE live
        /\ audit' = IF rejected THEN audit ELSE Moved(audit, g, u)
        /\ UNCHANGED <<points_file, negative_tracker, clock, next_run, next_id, s, conv,
                       user_data>>
        /\ UNCHANGED ledger_vars

tictactoe_move_handler ==
    /\ h.pc = "idle"
    /\ \E u \in Users, g \in GameIds, r \in 0..2, c \in 0..2 : TTTMove(u, g, r, c)

\* ----------------------------------------------------------- connect four
Max(S) == CHOOSE x \in S : \A y \in S : y <= x

MinOf(S) == CHOOSE x \in S : \A y \in S : x <= y

Line4(board, p, r, c, dr, dc) == \A i \in 0..3 : board[r + i * dr][c + i * dc] = p

check_connect_four_win(board, player_num) ==
    \/ \E r \in 0..5, c \in 0..3 : Line4(board, player_num, r, c, 0, 1)
    \/ \E r \in 0..2, c \in 0..6 : Line4(board, player_num, r, c, 1, 0)
    \/ \E r \in 0..2, c \in 0..3 : Line4(board, player_num, r, c, 1, 1)
    \/ \E r \in 3..5, c \in 0..3 : Line4(board, player_num, r, c, -1, 1)

check_connect_four_draw(board) == \A c \in 0..6 : board[0][c] # 0

\* the empty top cell of column col only, as a search from row 0 down the
\* grid would find it
FreeRowsFromTop(board, col) == {r \in 0..5 : r = 0 /\ board[r][col] = 0}

\* the rows of column col that are still empty
FreeRows(board, col) == {r \in 0..5 : board[r][col] = 0}

C4Rejected(gf, u, g, col) ==
    \/ ~Present(gf, g)
    \/ gf[g].status # "active"
    \/ gf[g].turn # u
    \/ FreeRows(gf[g].board, col) = {}

\* A press by user u on the button of column col of the board of session g.
\* A win and a draw are announced by an edit without a keyboard; on a draw
\* the handler then saves the games_data it holds, with the move made.
C4Move(u, g, col) ==
    LET gf1 == update_game_activity(games_file, g, clock)
        game == gf1[g]
        player_num == IF u = game.challenger_id THEN 1 ELSE 2
        rejected == C4Rejected(gf1, u, g, col)
        board == [game.board EXCEPT ![Max(FreeRows(game.board, col))][col] = player_num]
        over == check_connect_four_win(board, player_num) \/ check_connect_four_draw(board)
    IN  /\ <<"board", 0>> \in live[g]
        /\ Present(games_file, g) => games_file[g].game_type = "connect_four"
        /\ CASE rejected ->
                   /\ games_file' = gf1
                   /\ h' = HIdle
             [] ~rejected /\ check_connect_four_win(board, player_num) ->
                   /\ games_file' = gf1
                   /\ h' = [HIdle EXCEPT !.pc = "game_over_load", !.gid = g, !.w = u,
                                         !.l = Other(game, u)]
             [] ~rejected /\ ~check_connect_four_win(board, player_num)
                          /\ check_connect_four_draw(board) ->
                   /\ games_file' = gf1
                   /\ h' = [HIdle EXCEPT !.pc = "c4_draw", !.gid = g, !.user = u,
                                         !.data = gf1, !.board = board]
             [] OTHER ->
                   /\ games_file' = [gf1 EXCEPT ![g].board = board, ![g].turn = Other(game, u)]
                   /\ h' = HIdle
        /\ live' = IF Inactive(gf1, g) \/ (~rejected /\ over)
                   THEN [live EXCEPT ![g] = @ \ {<<"board", 0>>}]
                   ELSE live
        /\ audit' = IF rejected THEN audit ELSE Moved(audit, g, u)
        /\ UNCHANGED <<points_file, negative_tracker, clock, next_run, next_id, s, conv,
                       user_data>>
        /\ UNCHANGED ledger_vars

connect_four_move_handler ==
    /\ h.pc = "idle"
    /\ \E u \in Users, g \in GameIds, col \in 0..6 : C4Move(u, g, col)

\* the end of the draw branch of connect_four_move_handler
connect_four_draw ==
    /\ h.pc = "c4_draw"
    /\ LET new == [h.data EXCEPT ![h.gid].board = h.board, ![h.gid].status = "complete"]
       IN  /\ games_file' = new
           /\ audit' = Saved(Charged(audit, h.gid, "c4_draw", <<>>), games_file, new)
    /\ h' = HIdle
    /\ UNCHANGED <<points_file, negative_tracker, clock, next_run, next_id, s, conv,
                   user_data, live>>
    /\ UNCHANGED ledger_vars

\* ------------------------------------------------------------------ dice
Rounds == {3, 5, 9}

DiceValues == 1..MaxDie

\* the session start_game makes of a dice session that has been set up
DiceStart(game) ==
    [game EXCEPT !.current_round = 1, !.challenger_score = 0, !.opponent_score = 0,
                 !.last_roll = NoRoll, !.status = "active"]

\* the first stored session in which user_id plays an active dice game
DiceGameOf(gd, user_id) ==
    {g \in GameIds : /\ Present(gd, g)
                     /\ gd[g].game_type = "dice"
                     /\ gd[g].status = "active"
                     /\ user_id \in {gd[g].challenger_id, gd[g].opponent_id}}

rounds_to_win(game) == (game.rounds_to_play \div 2) + 1

DiceOver(game) ==
    \/ game.challenger_score >= rounds_to_win(game)
    \/ game.opponent_score >= rounds_to_win(game)

\* the winner of the round the second roll closes, 0 on a tie
RoundWinner(game, user_id, value) ==
    CASE game.last_roll.value > value -> game.last_roll.user_id
      [] value > game.last_roll.value -> user_id
      [] OTHER -> 0

Scored(game, winner_id) ==
    IF winner_id = game.challenger_id
    THEN [game EXCEPT !.challenger_score = @ + 1]
    ELSE [game EXCEPT !.opponent_score = @ + 1]

\* active_game, the handler's own copy of the session, once the roll of
\* value by user_id has been dealt with
DiceAfter(game, user_id, value) ==
    LET rolled == [game EXCEPT !.messages_to_delete = @ \cup {"roll"}]
    IN  CASE game.last_roll = NoRoll ->
                [rolled EXCEPT !.last_roll = [user_id |-> user_id, value |-> value]]
          [] game.last_roll # NoRoll /\ game.last_roll.user_id = user_id ->
                rolled
          [] game.last_roll # NoRoll /\ game.last_roll.user_id # user_id
                                    /\ RoundWinner(game, user_id, value) = 0 ->
                [rolled EXCEPT !.last_roll = NoRoll]
          [] OTHER ->
                LET scored == Scored(rolled, RoundWinner(game, user_id, value))
                IN  IF DiceOver(scored) THEN scored
                    ELSE [scored EXCEPT !.current_round = @ + 1, !.last_roll = NoRoll]

\* A die rolled by user_id. The handler keeps the games_data it loaded
\* before update_game_activity saved; a roll out of turn is answered at once,
\* any other roll waits for Telegram before the handler saves.
dice_roll_handler ==
    /\ h.pc = "idle"
    /\ \E user_id \in Users, value \in DiceValues :
          /\ DiceGameOf(games_file, user_id) # {}
          /\ LET g == MinOf(DiceGameOf(games_file, user_id))
                 gf1 == update_game_activity(games_file, g, clock)
                 game == games_file[g]
             IN  IF game.last_roll # NoRoll /\ game.last_roll.user_id = user_id
                 THEN /\ games_file' = track(gf1, g, "roll_note")
                      /\ h' = HIdle
                      /\ audit' = audit
                 ELSE /\ games_file' = gf1
                      /\ h' = [HIdle EXCEPT !.pc = "dice_roll", !.gid = g, !.user = user_id,
                                            !.w = value, !.data = games_file]
                      /\ audit' = [audit EXCEPT ![g].moved = clock]
    /\ UNCHANGED <<points_file, negative_tracker, clock, next_run, next_id, s, conv,
                   user_data, live>>
    /\ UNCHANGED ledger_vars

\* The messages have gone out (what send_and_track_message stored of them
\* is overwritten here) and the handler saves its games_data; after the
\* round that decides the match it goes on into handle_game_over.
dice_roll_save ==
    /\ h.pc = "dice_roll"
    /\ LET game == DiceAfter(h.data[h.gid], h.user, h.w)
           new == [h.data EXCEPT ![h.gid] = game]
           decided == h.data[h.gid].last_roll # NoRoll
                        /\ RoundWinner(h.data[h.gid], h.user, h.w) # 0
                        /\ DiceOver(game)
           winner_id == IF game.challenger_score > game.opponent_score
                        THEN game.challenger_id ELSE game.opponent_id
       IN  /\ games_file' = new
           /\ audit' = Saved(audit, games_file, new)
           /\ h' = IF decided
                    THEN GameOverLoad(new, h.gid, winner_id, Other(game, winner_id))
                    ELSE HIdle
    /\ UNCHANGED <<points_file, negative_tracker, clock, next_run, next_id, s, conv,
                   user_data, live>>
    /\ UNCHANGED ledger_vars

\* --------------------------------------------------------- admin commands
loser_command ==
    /\ h.pc = "idle"
    /\ \E loser_id \in Players :
          LET found == {g \in GameIds : /\ games_file[g].status = "active"
                                        /\ loser_id \in {games_file[g].challenger_id,
                                                         games_file[g].opponent_id}}
              latest_game_id == Max(found)
          IN  /\ found # {}
              /\ h' = GameOverLoad(games_file, latest_game_id,
                                   Other(games_file[latest_game_id], loser_id), loser_id)
    /\ UNCHANGED <<games_file, points_file, negative_tracker, clock, next_run, next_id,
                   s, conv, user_data, live, audit>>
    /\ UNCHANGED ledger_vars

stopgame_command ==
    /\ h.pc = "idle"
    /\ ActiveInGroup(games_file) # {}
    /\ h' = [HIdle EXCEPT !.pc = "stopgame", !.gid = MinOf(ActiveInGroup(games_file)),
                          !.data = games_file]
    /\ UNCHANGED <<games_file, points_file, negative_tracker, clock, next_run, next_id,
                   s, conv, user_data, live, audit>>
    /\ UNCHANGED ledger_vars

\* /stopgame as it would be if it charged both stakes: amended C9 fails on it
stopgame_stop_forfeits ==
    /\ h.pc = "stopgame"
    /\ LET effs == ForfeitEffects(h.data[h.gid])
           r == ApplyEffects(points_file, negative_tracker, effs)
           new == [h.data EXCEPT ![h.gid].status = "complete"]
       IN  /\ points_file' = r.p
           /\ negative_tracker' = r.t
           /\ games_file' = new
           /\ audit' = Saved(Charged(audit, h.gid, "stop", effs), games_file, new)
           /\ h' = HFinish(new, h.gid)
    /\ UNCHANGED <<clock, next_run, next_id, s, conv, user_data, live>>
    /\ UNCHANGED ledger_vars

stopgame_stop ==
    /\ h.pc = "stopgame"
    /\ LET new == [h.data EXCEPT ![h.gid].status = "complete"]
       IN  /\ games_file' = new
           /\ audit' = Saved(Charged(audit, h.gid, "stop", <<>>), games_file, new)
           /\ h' = HFinish(new, h.gid)
    /\ UNCHANGED <<points_file, negative_tracker, clock, next_run, next_id, s, conv,
                   user_data, live>>
    /\ UNCHANGED ledger_vars

cleangames_command ==
    /\ h.pc = "idle"
    /\ \E g \in GameIds : games_file[g].status = "complete"
    /\ games_file' = [g \in GameIds |->
                         IF games_file[g].status = "complete" THEN NoGame ELSE games_file[g]]
    /\ UNCHANGED <<points_file, negative_tracker, clock, next_run, next_id, h, s, conv,
                   user_data, live, audit>>
    /\ UNCHANGED ledger_vars

\* ---------------------------------------------------------------- revenge
revenge_handler ==
    /\ h.pc = "idle"
    /\ \E u \in Users, old_game_id \in GameIds :
          /\ <<"revenge", 0>> \in live[old_game_id]
          /\ Present(games_file, old_game_id)
          /\ games_file[old_game_id].loser_id # 0
          /\ games_file[old_game_id].winner_id # 0
          /\ u = games_file[old_game_id].loser_id
          /\ ActiveInGroup(games_file) = {}
          /\ next_id <= MaxGames
          /\ h' = [HIdle EXCEPT !.pc = "revenge", !.gid = old_game_id, !.user = u,
                                !.data = games_file]
    /\ UNCHANGED <<games_file, points_file, negative_tracker, clock, next_run, next_id,
                   s, conv, user_data, live, audit>>
    /\ UNCHANGED ledger_vars

\* the new session with the roles of the old winner and loser exchanged
revenge_create_swapped ==
    /\ h.pc = "revenge"
    /\ next_id <= MaxGames
    /\ LET old_game == h.data[h.gid]
           new == [h.data EXCEPT ![next_id] =
                      NewSession(old_game.winner_id, old_game.loser_id, clock, TRUE, h.gid)]
       IN  /\ games_file' = new
           /\ audit' = [Saved(audit, games_file, new) EXCEPT
                            ![next_id].ch = old_game.winner_id,
                            ![next_id].op = old_game.loser_id]
    /\ h' = [h EXCEPT !.pc = "revenge_track", !.w = next_id]
    /\ next_id' = next_id + 1
    /\ UNCHANGED <<points_file, negative_tracker, clock, next_run, s, conv, user_data, live>>
    /\ UNCHANGED ledger_vars

revenge_create ==
    /\ h.pc = "revenge"
    /\ next_id <= MaxGames
    /\ LET old_game == h.data[h.gid]
           new == [h.data EXCEPT ![next_id] =
                      NewSession(old_game.loser_id, old_game.winner_id, clock, TRUE, h.gid)]
       IN  /\ games_file' = new
           /\ audit' = [Saved(audit, games_file, new) EXCEPT
                            ![next_id].ch = old_game.loser_id,
                            ![next_id].op = old_game.winner_id]
    /\ h' = [h EXCEPT !.pc = "revenge_track", !.w = next_id]
    /\ next_id' = next_id + 1
    /\ UNCHANGED <<points_file, negative_tracker, clock, next_run, s, conv, user_data, live>>
    /\ UNCHANGED ledger_vars

revenge_track ==
    /\ h.pc = "revenge_track"
    /\ games_file' = track(games_file, h.w, "setup_c")
    /\ live' = [live EXCEPT ![h.w] = @ \cup {<<"setup_c", h.user>>},
                            ![h.gid] = @ \ {<<"revenge", 0>>}]
    /\ h' = HIdle
    /\ UNCHANGED <<points_file, negative_tracker, clock, next_run, next_id, s, conv,
                   user_data, audit>>
    /\ UNCHANGED ledger_vars

\* ------------------------------------------------- check_game_inactivity
\* the loop looks at active sessions alone
BranchActiveOnly(game, now) ==
    CASE game.status # "active" -> "none"
      [] now - game.last_activity > CancelAfter -> "cancellation"
      [] now - game.last_activity > WarnAfter /\ ~game.warning_sent -> "warning"
      [] OTHER -> "none"

\* what the loop decides for a session of its own games_data
Branch(game, now) ==
    CASE game.status \notin {"pending_opponent_acceptance", "active",
                             "pending_game_selection", "pending_opponent_stake"} -> "none"
      [] game.status = "pending_opponent_acceptance"
            /\ now - game.last_activity > ChallengeTimeout -> "challenge_timeout"
      [] now - game.last_activity > CancelAfter -> "cancellation"
      [] now - game.last_activity > WarnAfter /\ ~game.warning_sent -> "warning"
      [] OTHER -> "none"

\* whether the branch reaches an await: the two routines first load the
\* store again and return at once when the session is gone or not theirs
Suspends(branch, gf, g) ==
    CASE branch = "challenge_timeout" ->
            Present(gf, g) /\ gf[g].status = "pending_opponent_acceptance"
      [] branch = "cancellation" -> Present(gf, g) /\ gf[g].status # "complete"
      [] branch = "warning" -> TRUE
      [] OTHER -> FALSE

\* what the second loop decides for a truth-or-dare session of its own
\* active_tod_games
TodBranch(game, now) ==
    CASE game.status # "awaiting_proof" -> "none"
      [] now - game.timestamp > CancelAfter -> "tod_timeout"
      [] now - game.timestamp > WarnAfter /\ ~game.warning_sent -> "tod_warning"
      [] OTHER -> "none"

\* The coroutine at its next await in the second loop, which runs over todo
\* with its own active_tod_games and now, while the store holds tf:
\* handle_tod_timeout loads the store again and returns at once when the
\* session is gone.
RECURSIVE TodContinue(_, _, _, _)
TodContinue(data, now, todo, tf) ==
    IF todo = <<>> THEN SIdle
    ELSE LET t == Head(todo)
             branch == TodBranch(data[t], now)
         IN  IF branch = "tod_warning" \/ (branch = "tod_timeout" /\ tf[t].status # "absent")
             THEN [pc |-> branch, now |-> now, data |-> data, todo |-> Tail(todo),
                   gid |-> t, inner |-> IF branch = "tod_warning" THEN NoData ELSE tf]
             ELSE TodContinue(data, now, Tail(todo), tf)

RECURSIVE TodItems(_, _)
TodItems(td, t) ==
    IF t > MaxTod THEN <<>>
    ELSE IF td[t].status # "absent" THEN <<t>> \o TodItems(td, t + 1)
         ELSE TodItems(td, t + 1)

\* The coroutine at its next await: the loop runs over todo, with its own
\* games_data and now, while the store holds gf; after it the second loop
\* starts on the truth-or-dare store as it is then.
RECURSIVE Continue(_, _, _, _)
Continue(data, now, todo, gf) ==
    IF todo = <<>> THEN TodContinue(tod_file, now, TodItems(tod_file, 1), tod_file)
    ELSE LET g == Head(todo)
             branch == Branch(data[g], now)
         IN  IF Suspends(branch, gf, g)
             THEN [pc |-> branch, now |-> now, data |-> data, todo |-> Tail(todo),
                   gid |-> g, inner |-> IF branch = "warning" THEN NoData ELSE gf]
             ELSE Continue(data, now, Tail(todo), gf)

RECURSIVE Items(_, _)
Items(gd, g) ==
    IF g > MaxGames THEN <<>>
    ELSE IF Present(gd, g) THEN <<g>> \o Items(gd, g + 1) ELSE Items(gd, g + 1)

check_game_inactivity ==
    /\ s.pc = "idle"
    /\ clock >= next_run
    /\ s' = Continue(games_file, clock, Items(games_file, 1), games_file)
    /\ next_run' = clock + TimeStep
    /\ UNCHANGED <<games_file, points_file, negative_tracker, clock, next_id, h, conv,
                   user_data, live, audit>>
    /\ UNCHANGED ledger_vars

\* the scheduler once it has saved gf and entered delete_tracked_messages
SFinish(gf) ==
    IF Present(gf, s.gid) /\ gf[s.gid].messages_to_delete # {}
    THEN [s EXCEPT !.pc = "dtm", !.inner = gf]
    ELSE Continue(s.data, s.now, s.todo, gf)

handle_challenge_timeout ==
    /\ s.pc = "challenge_timeout"
    /\ LET new == [s.inner EXCEPT ![s.gid].status = "complete"]
       IN  /\ games_file' = new
           /\ audit' = Saved(Charged(audit, s.gid, "timeout", <<>>), games_file, new)
           /\ s' = SFinish(new)
    /\ UNCHANGED <<points_file, negative_tracker, clock, next_run, next_id, h, conv,
                   user_data, live>>
    /\ UNCHANGED ledger_vars

handle_game_cancellation ==
    /\ s.pc = "cancellation"
    /\ audit[s.gid].settles < CounterCap
    /\ LET effs == ForfeitEffects(s.inner[s.gid])
           r == ApplyEffects(points_file, negative_tracker, effs)
           new == [s.inner EXCEPT ![s.gid].status = "complete"]
       IN  /\ points_file' = r.p
           /\ negative_tracker' = r.t
           /\ games_file' = new
           /\ audit' = Saved(Charged(audit, s.gid, "cancel", effs), games_file, new)
           /\ s' = SFinish(new)
    /\ UNCHANGED <<clock, next_run, next_id, h, conv, user_data, live>>
    /\ UNCHANGED ledger_vars

inactivity_warning ==
    /\ s.pc = "warning"
    /\ LET new == [s.data EXCEPT ![s.gid].warning_sent = TRUE]
       IN  /\ games_file' = new
           /\ audit' = Saved(audit, games_file, new)
           /\ s' = Continue(new, s.now, s.todo, new)
    /\ UNCHANGED <<points_file, negative_tracker, clock, next_run, next_id, h, conv,
                   user_data, live>>
    /\ UNCHANGED ledger_vars

scheduler_delete_tracked_messages ==
    /\ s.pc = "dtm"
    /\ LET new == [s.inner EXCEPT ![s.gid].messages_to_delete = {}]
       IN  /\ games_file' = new
           /\ audit' = Saved(audit, games_file, new)
           /\ s' = Continue(s.data, s.now, s.todo, new)
    /\ live' = [live EXCEPT ![s.gid] = Deleted(@, s.inner[s.gid].messages_to_delete)]
    /\ UNCHANGED <<points_file, negative_tracker, clock, next_run, next_id, h, conv,
                   user_data>>
    /\ UNCHANGED ledger_vars

\* ------------------------------------------ add_user_points, await by await
\* check_for_punishment from the rule at the head of rules up to its next
\* await.  triggered is the list read at the start of the routine, armed the
\* stored list of the user: a rule the balance is not below is taken off
\* the stored list when the list read has it, and the scan stops at the
\* first rule that is crossed and not in the list read.
RECURSIVE PunishScan(_, _, _, _, _)
PunishScan(rules, old, new, triggered, armed) ==
    IF rules = <<>> THEN [armed |-> armed, fire |-> FALSE, rule |-> 0, rest |-> <<>>]
    ELSE LET threshold == Head(rules)
         IN  IF old >= threshold /\ new < threshold
             THEN IF threshold \notin triggered
                  THEN [armed |-> armed, fire |-> TRUE, rule |-> threshold,
                        rest |-> Tail(rules)]
                  ELSE PunishScan(Tail(rules), old, new, triggered, armed)
             ELSE IF new >= threshold /\ threshold \in triggered
                  THEN PunishScan(Tail(rules), old, new, triggered, armed \ {threshold})
                  ELSE PunishScan(Tail(rules), old, new, triggered, armed)

\* check_for_negative_points up to its first await in the call of frame f,
\* the stored counters being nt: a balance below zero stores one more
\* strike and asks for the member, any other returns.
NegEnter(f, nt) ==
    IF f.new < 0
    THEN LET tracker == [nt EXCEPT ![f.user] = @ + 1]
         IN  [t |-> tracker,
              f |-> [f EXCEPT !.pc = "neg_member", !.strikes = tracker[f.user],
                              !.tracker = tracker]]
    ELSE [t |-> nt, f |-> [f EXCEPT !.pc = "idle"]]

\* The caller c with its call in frame f, f.pc = "idle" telling that the call
\* has returned: the handler goes on as f.ret and the job in
\* handle_tod_timeout.  A step of c falls inside the call of the other one.
After(c, f) ==
    /\ ad' = [ad EXCEPT ![c] = IF f.pc = "idle" THEN NoFrame ELSE f,
                        ![OtherCaller(c)].alone = @ /\ ad[OtherCaller(c)].pc = "idle"]
    /\ IF c = "h"
       THEN /\ h' = IF f.pc = "idle" THEN f.ret
                    ELSE [HIdle EXCEPT !.pc = "add_user_points", !.user = f.user]
            /\ s' = s
       ELSE /\ s' = [s EXCEPT !.pc = IF f.pc = "idle" THEN "tod_finish"
                                     ELSE "add_user_points"]
            /\ h' = h

\* the firings of each rule since the balance was last put at or above it;
\* a rule fires in the call that finds it crossed and not in the list read
Since(u, new) ==
    [notes.since EXCEPT ![u] = [r \in Thresholds |-> IF new >= r THEN 0 ELSE @[r]]]

Fired(since, u, scan) ==
    IF scan.fire THEN [since EXCEPT ![u][scan.rule] = Min(@ + 1, CounterCap)] ELSE since

\* no balance clears a counter
KeepStrikes(nt, u, new_points) == nt

\* a balance that is not negative puts the counter of the user, if it is
\* not zero, at zero
ResetStrikes(nt, u, new_points) ==
    IF new_points >= 0 /\ nt[u] # 0 THEN [nt EXCEPT ![u] = 0] ELSE nt

\* add_user_points(user_id, delta) of caller c up to its first await, tod
\* being the truth-or-dare session it is charged or awarded for, if any, and
\* ret the handler as it goes on after the call
CallThen(c, u, delta, tod, ret) ==
    LET old_points == points_file[u]
        new_points == old_points + delta
        nt == ResetStrikes(negative_tracker, u, new_points)
        cleared == nt # negative_tracker
        scan == PunishScan(punishments, old_points, new_points, punishment_status[u],
                           punishment_status[u])
        f == [NoFrame EXCEPT !.user = u, !.old = old_points, !.new = new_points,
                             !.triggered = punishment_status[u],
                             !.c0 = negative_tracker[u],
                             !.alone = ad[OtherCaller(c)].pc = "idle",
                             !.ret = ret]
        neg == NegEnter(f, nt)
    IN  /\ points_file' = [points_file EXCEPT ![u] = new_points]
        /\ punishment_status' = [punishment_status EXCEPT ![u] = scan.armed]
        /\ IF scan.fire
           THEN /\ negative_tracker' = nt
                /\ After(c, [f EXCEPT !.pc = "pun_member", !.rule = scan.rule,
                                      !.rules = scan.rest])
           ELSE /\ negative_tracker' = neg.t
                /\ After(c, neg.f)
        /\ notes' = [ev |-> IF cleared THEN {<<"cleared", u>>} ELSE {},
                     since |-> Fired(Since(u, new_points), u, scan),
                     charged |-> IF tod = 0 \/ delta > 0 THEN notes.charged
                                 ELSE [notes.charged EXCEPT
                                          ![tod] = Min(@ + 1, CounterCap)],
                     awarded |-> IF tod = 0 \/ delta < 0 THEN notes.awarded
                                 ELSE [notes.awarded EXCEPT
                                          ![tod] = Min(@ + 1, CounterCap)]]

Call(c, u, delta, tod) == CallThen(c, u, delta, tod, HIdle)

\* the member is known: the punishment message goes to the group
PunishNotify(c) ==
    LET f == ad[c]
    IN  /\ f.pc = "pun_member"
        /\ After(c, [f EXCEPT !.pc = "pun_notified"])
        /\ notes' = [notes EXCEPT !.ev = {<<"punishment", f.user, f.rule>>}]
        /\ UNCHANGED <<points_file, negative_tracker, punishment_status>>

\* the admins are told: the rule is armed and the rules after it looked at,
\* then check_for_negative_points starts
PunishArm(c) ==
    LET f == ad[c]
        scan == PunishScan(f.rules, f.old, f.new, f.triggered,
                           punishment_status[f.user] \cup {f.rule})
        neg == NegEnter(f, negative_tracker)
    IN  /\ f.pc = "pun_notified"
        /\ punishment_status' = [punishment_status EXCEPT ![f.user] = scan.armed]
        /\ IF scan.fire
           THEN /\ negative_tracker' = negative_tracker
                /\ After(c, [f EXCEPT !.pc = "pun_member", !.rule = scan.rule,
                                      !.rules = scan.rest])
           ELSE /\ negative_tracker' = neg.t
                /\ After(c, neg.f)
        /\ notes' = [notes EXCEPT !.ev = {}, !.since = Fired(@, f.user, scan)]
        /\ UNCHANGED points_file

\* every strike asks for the mute, the third too
NegMemberMutes(c) ==
    LET f == ad[c]
    IN  /\ f.pc = "neg_member"
        /\ negative_tracker' = negative_tracker
        /\ After(c, [f EXCEPT !.pc = "neg_restrict"])
        /\ notes' = [notes EXCEPT !.ev = {}]
        /\ UNCHANGED <<points_file, punishment_status>>

\* the member is known: below three strikes the mute is asked for, at the
\* third the dict loaded before the await is saved with the counter at zero
NegMember(c) ==
    LET f == ad[c]
    IN  /\ f.pc = "neg_member"
        /\ IF f.strikes < 3
           THEN /\ negative_tracker' = negative_tracker
                /\ After(c, [f EXCEPT !.pc = "neg_restrict"])
           ELSE /\ negative_tracker' = [f.tracker EXCEPT ![f.user] = 0]
                /\ After(c, [f EXCEPT !.pc = "neg_third"])
        /\ notes' = [notes EXCEPT !.ev = {}]
        /\ UNCHANGED <<points_file, punishment_status>>

\* the member is muted: the balance is put at zero and the group told
NegMute(c) ==
    LET f == ad[c]
    IN  /\ f.pc = "neg_restrict"
        /\ points_file' = [points_file EXCEPT ![f.user] = 0]
        /\ After(c, [f EXCEPT !.pc = "idle"])
        /\ notes' = [notes EXCEPT !.ev = {<<"mute", f.user>>}]
        /\ UNCHANGED <<negative_tracker, punishment_status>>

\* the group and the admins are told of the third strike
NegThird(c) ==
    LET f == ad[c]
    IN  /\ f.pc = "neg_third"
        /\ After(c, [f EXCEPT !.pc = "idle"])
        /\ notes' = [notes EXCEPT !.ev = {<<"third", f.user>>}]
        /\ UNCHANGED <<points_file, negative_tracker, punishment_status>>

ledger_rest == <<games_file, clock, next_run, next_id, conv, user_data, live, audit,
                 tod_file, punishments, tod_menu>>

check_for_punishment_notify ==
    /\ \E c \in Callers : PunishNotify(c)
    /\ UNCHANGED ledger_rest

check_for_punishment_arm ==
    /\ \E c \in Callers : PunishArm(c)
    /\ UNCHANGED ledger_rest

check_for_negative_points_member ==
    /\ \E c \in Callers : NegMember(c)
    /\ UNCHANGED ledger_rest

check_for_negative_points_mute ==
    /\ \E c \in Callers : NegMute(c)
    /\ UNCHANGED ledger_rest

check_for_negative_points_third ==
    /\ \E c \in Callers : NegThird(c)
    /\ UNCHANGED ledger_rest

\* the admin's add-points and remove-points flows, at the value typed
conversation_handler_points ==
    /\ h.pc = "idle"
    /\ \E u \in Subjects, value \in PointValues, sign \in {-1, 1} :
          /\ points_file[u] + sign * value <= MaxBalance
          /\ points_file[u] + sign * value >= -MaxBalance
          /\ Call("h", u, sign * value, 0)
    /\ UNCHANGED ledger_rest

\* ------------------------------------------------------ handle_tod_timeout
handle_tod_timeout ==
    /\ s.pc = "tod_timeout"
    /\ points_file[s.inner[s.gid].user_id] - TodPenalty >= -MaxBalance
    /\ Call("s", s.inner[s.gid].user_id, -TodPenalty, s.gid)
    /\ UNCHANGED ledger_rest

\* the group is told, and the session deleted from the copy loaded at the
\* start
handle_tod_timeout_finish ==
    /\ s.pc = "tod_finish"
    /\ LET new == [s.inner EXCEPT ![s.gid] = NoTod]
       IN  /\ tod_file' = new
           /\ s' = TodContinue(s.data, s.now, s.todo, new)
    /\ notes' = [notes EXCEPT !.ev = {}]
    /\ UNCHANGED <<games_file, points_file, negative_tracker, clock, next_run, next_id, h,
                   conv, user_data, live, audit, punishments, punishment_status, ad,
                   tod_menu>>

tod_inactivity_warning ==
    /\ s.pc = "tod_warning"
    /\ LET new == [s.data EXCEPT ![s.gid].warning_sent = TRUE]
       IN  /\ tod_file' = new
           /\ s' = TodContinue(new, s.now, s.todo, new)
    /\ notes' = [notes EXCEPT !.ev = {}]
    /\ UNCHANGED <<games_file, points_file, negative_tracker, clock, next_run, next_id, h,
                   conv, user_data, live, audit, punishments, punishment_status, ad,
                   tod_menu>>

\* ----------------------------------------------------------- truth or dare
TodTypes == {"truth", "dare"}

\* what a message of the subject carries
MessageKinds == {"text", "voice", "photo", "video"}

is_valid_proof(type, kind) ==
    \/ type = "dare" /\ kind \in {"photo", "video"}
    \/ type = "truth" /\ kind \in {"text", "voice"}

TodStored(tf) == {t \in TodIds : tf[t].status # "absent"}

tod_rest == <<games_file, points_file, negative_tracker, clock, next_run, next_id, s, conv,
              user_data, live, audit, punishments, punishment_status, ad, notes>>

\* /dareme in the group: any stored session of the group turns it down,
\* else the Truth/Dare keyboard is posted for the user; nothing is stored
dareme_command ==
    /\ h.pc = "idle"
    /\ TodStored(tod_file) = {}
    /\ tod_menu.next_id <= MaxTod
    /\ \E u \in Players :
          /\ tod_menu.open[u] < MaxTod
          /\ tod_menu' = [tod_menu EXCEPT !.open[u] = @ + 1]
    /\ UNCHANGED <<tod_file, h>>
    /\ UNCHANGED tod_rest

\* the user presses Truth or Dare on a keyboard of its own: the keyboard
\* gives way to the task and the session is stored under a fresh id
tod_choice_handler ==
    /\ h.pc = "idle"
    /\ tod_menu.next_id <= MaxTod
    /\ \E u \in Players, choice \in TodTypes :
          /\ tod_menu.open[u] > 0
          /\ tod_file' = [tod_file EXCEPT
                             ![tod_menu.next_id] = PendingAcceptance(u, choice, clock)]
          /\ tod_menu' = [open |-> [tod_menu.open EXCEPT ![u] = @ - 1],
                          next_id |-> tod_menu.next_id + 1]
    /\ UNCHANGED h
    /\ UNCHANGED tod_rest

\* the subject presses "I'll do it!"
tod_start_proof_handler ==
    /\ h.pc = "idle"
    /\ \E t \in TodIds :
          /\ tod_file[t].status = "pending_acceptance"
          /\ tod_file' = [tod_file EXCEPT ![t].status = "awaiting_proof",
                                          ![t].timestamp = clock]
    /\ UNCHANGED <<tod_menu, h>>
    /\ UNCHANGED tod_rest

\* the subject presses Refuse: the store is loaded, then the admins are told
\* and the message edited
tod_refuse_handler ==
    /\ h.pc = "idle"
    /\ \E t \in TodIds :
          /\ tod_file[t].status = "pending_acceptance"
          /\ h' = [HIdle EXCEPT !.pc = "tod_refuse", !.gid = t,
                                !.user = tod_file[t].user_id, !.data = tod_file]
    /\ UNCHANGED <<tod_file, tod_menu>>
    /\ UNCHANGED tod_rest

\* the session is deleted from the copy loaded and the copy saved
tod_refuse_save ==
    /\ h.pc = "tod_refuse"
    /\ tod_file' = [h.data EXCEPT ![h.gid] = NoTod]
    /\ h' = HIdle
    /\ UNCHANGED tod_menu
    /\ UNCHANGED tod_rest

\* the first stored session of user u that awaits proof, 0 if there is none
AwaitedOf(tf, u) ==
    LET ts == {t \in TodIds : tf[t].status = "awaiting_proof" /\ tf[t].user_id = u}
    IN  IF ts = {} THEN 0 ELSE CHOOSE t \in ts : \A x \in ts : t <= x

\* A message of user u in the group while a session of u awaits proof: a
\* proof of the right kind earns the points, any other gets the hint.
tod_handle_proof_submission ==
    /\ h.pc = "idle"
    /\ \E u \in Players, kind \in MessageKinds :
          LET t == AwaitedOf(tod_file, u)
          IN  /\ t # 0
              /\ IF is_valid_proof(tod_file[t].type, kind)
                 THEN /\ notes.awarded[t] < CounterCap
                      /\ CallThen("h", u, TodAward, t,
                                  [HIdle EXCEPT !.pc = "tod_proof", !.gid = t, !.user = u,
                                                !.data = tod_file])
                 ELSE /\ h' = [HIdle EXCEPT !.pc = "tod_hint", !.gid = t, !.user = u]
                      /\ UNCHANGED <<points_file, negative_tracker, punishment_status, ad,
                                     s, notes>>
    /\ UNCHANGED ledger_rest

\* the hint that names the kind of proof wanted has been sent
tod_hint ==
    /\ h.pc = "tod_hint"
    /\ h' = HIdle
    /\ UNCHANGED <<tod_file, tod_menu>>
    /\ UNCHANGED tod_rest

\* the group is told of the points earned: the session is deleted from the
\* copy loaded at the start and the copy saved
tod_proof_save ==
    /\ h.pc = "tod_proof"
    /\ tod_file' = [h.data EXCEPT ![h.gid] = NoTod]
    /\ h' = HIdle
    /\ UNCHANGED tod_menu
    /\ UNCHANGED tod_rest

\* ------------------------------------------- a call to Telegram that fails
\* the awaits of add_user_points that stand in no try
Uncaught == {"pun_member", "pun_notified", "neg_member", "neg_third"}

\* The call to Telegram a caller waits for inside add_user_points raises and
\* nothing catches it: the exception leaves add_user_points and its caller,
\* the handler's update ends in the error handler and the job's run ends,
\* whatever was stored before the await staying as it is.
add_user_points_fails ==
    /\ \E c \in Callers :
          /\ ad[c].pc \in Uncaught
          /\ ad[c].pc = "neg_member" => ad[c].strikes <= MaxFailedStrikes
          /\ ad' = [ad EXCEPT ![c] = NoFrame,
                              ![OtherCaller(c)].alone = @ /\ ad[OtherCaller(c)].pc = "idle"]
          /\ IF c = "h" THEN h' = HIdle /\ s' = s ELSE s' = SIdle /\ h' = h
    /\ notes' = [notes EXCEPT !.ev = {}]
    /\ UNCHANGED <<points_file, negative_tracker, punishment_status>>
    /\ UNCHANGED ledger_rest

\* restrict_chat_member raises inside the try: the balance is not put at
\* zero, nobody is told and the call returns
check_for_negative_points_mute_fails ==
    /\ \E c \in Callers :
          /\ ad[c].pc = "neg_restrict"
          /\ After(c, [ad[c] EXCEPT !.pc = "idle"])
    /\ notes' = [notes EXCEPT !.ev = {}]
    /\ UNCHANGED <<points_file, negative_tracker, punishment_status>>
    /\ UNCHANGED ledger_rest

\* the message to the group raises: handle_tod_timeout and the run of the
\* job end before the session is deleted
handle_tod_timeout_fails ==
    /\ s.pc = "tod_finish"
    /\ s' = SIdle
    /\ notes' = [notes EXCEPT !.ev = {}]
    /\ UNCHANGED <<games_file, points_file, negative_tracker, clock, next_run, next_id, h,
                   conv, user_data, live, audit, tod_file, punishments, punishment_status,
                   ad, tod_menu>>

\* ------------------------------------------------------------------ time
Advance ==
    /\ clock + TimeStep <= MaxNow
    /\ clock' = clock + TimeStep
    /\ UNCHANGED <<games_file, points_file, negative_tracker, next_run, next_id, h, s,
                   conv, user_data, live, audit>>
    /\ UNCHANGED ledger_vars

\* ------------------------------------------------------ the specification
\* From construction: the life of sessions from /newgame through the setup
\* conversation and the opponent's answer to the end by /loser or /stopgame,
\* the revenge challenge and /cleangames, the clock standing still.
Next ==
    \/ newgame_command \/ newgame_track_notice \/ newgame_track_setup
    \/ start_game_setup \/ restart_game_setup \/ game_selection
    \/ stake_type_selection \/ stake_submission_points \/ stake_submission_media
    \/ track_hint \/ show_confirmation
    \/ confirm_game_setup_challenger \/ send_challenge_to_opponent
    \/ confirm_game_setup_opponent \/ start_game \/ start_game_on \/ start_game_board
    \/ challenge_response_handler \/ challenge_accepted
    \/ challenge_refused
    \/ start_opponent_setup \/ cancel_game_setup \/ cancel_game_setup_delete
    \/ handle_game_over
    \/ delete_tracked_messages
    \/ loser_command \/ stopgame_command \/ stopgame_stop \/ cleangames_command
    \/ revenge_handler \/ revenge_create \/ revenge_track

Spec == Init /\ [][Next]_vars

\* ------------------------------------------------------- a session in play
\* The tic-tac-toe board after the moves (0,0) (0,1) (0,2) (1,1) (1,0) (1,2)
TTTInPlay == <<<<1, 2, 1>>, <<1, 2, 2>>, <<0, 0, 0>>>>

\* The connect-four board after the 39 moves in columns
\* 0 0 6 4 6 3 3 4 2 4 0 1 1 5 5 0 3 0 0 6 5 6 5 5 6 1 2 3 5 3 6 1 4 2 2 4 2 1 4
C4InPlay ==
    <<<<1, 0, 0, 0, 1, 1, 1>>,
      <<2, 2, 1, 2, 2, 2, 1>>,
      <<2, 2, 1, 2, 1, 1, 2>>,
      <<1, 2, 2, 1, 2, 1, 2>>,
      <<2, 1, 1, 1, 2, 1, 1>>,
      <<1, 2, 1, 2, 2, 2, 1>>>>

\* The connect-four board after the 4 moves in columns 3 3 2 2
C4Opening ==
    <<<<0, 0, 0, 0, 0, 0, 0>>,
      <<0, 0, 0, 0, 0, 0, 0>>,
      <<0, 0, 0, 0, 0, 0, 0>>,
      <<0, 0, 0, 0, 0, 0, 0>>,
      <<0, 0, 2, 2, 0, 0, 0>>,
      <<0, 0, 1, 1, 0, 0, 0>>>>

\* a board as the program holds it, rows and columns counted from 0
Board(rows) == [r \in 0..(Len(rows) - 1) |->
                   [c \in 0..(Len(rows[1]) - 1) |-> rows[r + 1][c + 1]]]

\* what a player has staked: the largest points stake, or a photo
StakeChoices == {Points(MaxStake), Photo}

\* the messages tracked for a session when its board has been posted
TrackedInPlay == {"notice", "setup_c", "confirm_c", "challenge", "setup_o", "confirm_o",
                  "on", "board"}

\* Session 1 as the setup conversation and start_game leave it, user 1
\* against user 2, played to one of the two positions above.
InitPlay ==
    /\ LedgerIdle
    /\ \E game_type \in {"tictactoe", "connect_four"}, cs \in StakeChoices, os \in StakeChoices :
          games_file = [g \in GameIds |->
              IF g # 1 THEN NoGame
              ELSE [NewSession(1, 2, 0, FALSE, 0) EXCEPT
                       !.status = "active",
                       !.game_type = game_type,
                       !.challenger_stake = cs,
                       !.opponent_stake = os,
                       !.board = IF game_type = "tictactoe"
                                 THEN Board(TTTInPlay) ELSE Board(C4InPlay),
                       !.turn = IF game_type = "tictactoe" THEN 1 ELSE 2,
                       !.messages_to_delete = TrackedInPlay]]
    /\ points_file = [u \in Users |-> StartBalance]
    /\ negative_tracker = [u \in Users |-> 0]
    /\ clock = 0
    /\ next_run = TimeStep
    /\ next_id = 2
    /\ h = HIdle
    /\ s = SIdle
    /\ conv = [u \in Users |-> "end"]
    /\ user_data = [u \in Users |->
                       CASE u = 1 -> [game_id |-> 1, player_role |-> "none"]
                         [] u = 2 -> [game_id |-> 1, player_role |-> "opponent"]
                         [] OTHER -> NoUserData]
    /\ live = [g \in GameIds |-> IF g = 1 THEN {<<"board", 0>>} ELSE {}]
    /\ audit = [g \in GameIds |->
                   IF g = 1 THEN [NoAudit EXCEPT !.ch = 1, !.op = 2, !.started = TRUE]
                   ELSE NoAudit]

NextPlay ==
    \/ tictactoe_move_handler \/ connect_four_move_handler \/ connect_four_draw
    \/ handle_game_over_load \/ handle_game_over
    \/ handle_game_draw_load \/ handle_game_draw
    \/ delete_tracked_messages
    \/ loser_command \/ stopgame_command \/ stopgame_stop
    \/ check_game_inactivity \/ handle_game_cancellation
    \/ inactivity_warning \/ scheduler_delete_tracked_messages
    \/ Advance

SpecPlay == InitPlay /\ [][NextPlay]_vars

\* ------------------------------------------------- the ledger of one group
\* A group with its punishment rules and user 1 awaiting the proof of a
\* dare: an admin adds and removes points while the job times the
\* proofs out, every message reaching Telegram.
InitLedger ==
    /\ tod_file = [t \in TodIds |-> IF t = 1 THEN AwaitingProof(1, 0) ELSE NoTod]
    /\ punishments = Rules
    /\ punishment_status = [u \in Users |-> {}]
    /\ ad = [c \in Callers |-> NoFrame]
    /\ tod_menu = [NoMenu EXCEPT !.next_id = MaxTod + 1]
    /\ notes = NoNotes
    /\ games_file = [g \in GameIds |-> NoGame]
    /\ points_file = [u \in Users |-> StartBalance]
    /\ negative_tracker = [u \in Users |-> 0]
    /\ clock = 0
    /\ next_run = TimeStep
    /\ next_id = 1
    /\ h = HIdle
    /\ s = SIdle
    /\ conv = [u \in Users |-> "end"]
    /\ user_data = [u \in Users |-> NoUserData]
    /\ live = [g \in GameIds |-> {}]
    /\ audit = [g \in GameIds |-> NoAudit]

NextLedger ==
    \/ conversation_handler_points
    \/ check_for_punishment_notify \/ check_for_punishment_arm
    \/ check_for_negative_points_member \/ check_for_negative_points_mute
    \/ check_for_negative_points_third
    \/ check_game_inactivity \/ tod_inactivity_warning
    \/ handle_tod_timeout \/ handle_tod_timeout_finish
    \/ Advance

SpecLedger == InitLedger /\ [][NextLedger]_vars

\* ------------------------------------------------- truth or dare in a group
\* From construction: /dareme, the choice, the acceptance or the refusal and
\* the proof, the clock standing still; the group has no punishment rule.
NextTod ==
    \/ dareme_command \/ tod_choice_handler
    \/ tod_start_proof_handler \/ tod_refuse_handler \/ tod_refuse_save
    \/ tod_handle_proof_submission \/ tod_hint \/ tod_proof_save

SpecTod == Init /\ [][NextTod]_vars

\* no session has been stored yet
InitNoSession ==
    /\ games_file = [g \in GameIds |-> NoGame]
    /\ next_id = 1
    /\ user_data = [u \in Users |-> NoUserData]
    /\ live = [g \in GameIds |-> {}]
    /\ audit = [g \in GameIds |-> NoAudit]

\* ------------------------------------------------------- the win checks
\* the number of cells of a board that hold a piece
Pieces(board) ==
    Cardinality({rc \in (DOMAIN board) \X (DOMAIN board[0]) : board[rc[1]][rc[2]] # 0})

\* connect four is followed through its first MaxC4Pieces moves and through
\* its last MaxC4Left moves
C4Followed(board) ==
    \/ Pieces(board) < MaxC4Pieces
    \/ 42 - Pieces(board) <= MaxC4Left

connect_four_move_followed ==
    /\ \A g \in GameIds :
          (Present(games_file, g) /\ games_file[g].game_type = "connect_four")
              => C4Followed(games_file[g].board)
    /\ connect_four_move_handler

\* check_tictactoe_win called on the board and for the player held in h
check_tictactoe_win_call ==
    /\ h.pc = "check_tictactoe_win"
    /\ h' = [h EXCEPT !.pc = "checked",
                      !.w = IF check_tictactoe_win(h.board, h.user) THEN 1 ELSE 0]
    /\ UNCHANGED <<games_file, points_file, negative_tracker, clock, next_run, next_id,
                   s, conv, user_data, live, audit>>
    /\ UNCHANGED ledger_vars

check_connect_four_win_call ==
    /\ h.pc = "check_connect_four_win"
    /\ h' = [h EXCEPT !.pc = "checked",
                      !.w = IF check_connect_four_win(h.board, h.user) THEN 1 ELSE 0]
    /\ UNCHANGED <<games_file, points_file, negative_tracker, clock, next_run, next_id,
                   s, conv, user_data, live, audit>>
    /\ UNCHANGED ledger_vars

\* the runs of four cells of the connect-four grid, one by start and step
C4Runs ==
    {run \in {[i \in 0..3 |-> <<sd[1] + i * sd[3], sd[2] + i * sd[4]>>] :
                 sd \in (0..5) \X (0..6) \X (-1..1) \X (-1..1)} :
        /\ run[0] # run[1]
        /\ \A i \in 0..3 : run[i][1] \in 0..5 /\ run[i][2] \in 0..6}

\* a connect-four board on which player p holds the cells of a run but for
\* those of `hole', the other player holding those of `block'
C4Input(run, p, hole, block) ==
    [r \in 0..5 |-> [c \in 0..6 |->
        CASE \E i \in 0..3 : run[i] = <<r, c>> /\ i \notin hole -> p
          [] <<r, c>> \in block -> 3 - p
          [] OTHER -> 0]]

\* the boards the connect-four check is called on: a run complete or with
\* one cell missing, and up to one cell of the other player anywhere
C4Inputs ==
    {C4Input(run, 1, hole, block) :
        run \in C4Runs,
        hole \in {{}} \cup {{i} : i \in 0..3},
        block \in {{}} \cup {{rc} : rc \in (0..5) \X (0..6)}}

\* Either a win check is about to be called on a board, every tic-tac-toe
\* board and the connect-four boards above, or session 1 is active as
\* start_game leaves it: on the empty tic-tac-toe board with the challenger
\* to move, or on a connect-four board four moves after the start or three
\* moves before the end.
InitWin ==
    /\ LedgerIdle
    /\ points_file = [u \in Users |-> StartBalance]
    /\ negative_tracker = [u \in Users |-> 0]
    /\ clock = 0
    /\ next_run = TimeStep
    /\ s = SIdle
    /\ conv = [u \in Users |-> "end"]
    /\ \/ /\ \E board \in [0..2 -> [0..2 -> 0..2]], player_num \in 1..2 :
                h = [HIdle EXCEPT !.pc = "check_tictactoe_win", !.board = board,
                                  !.user = player_num]
          /\ InitNoSession
       \/ /\ \E board \in C4Inputs, player_num \in 1..2 :
                h = [HIdle EXCEPT !.pc = "check_connect_four_win", !.board = board,
                                  !.user = player_num]
          /\ InitNoSession
       \/ /\ h = HIdle
          /\ \E start \in {<<"tictactoe", TTTEmpty, 1>>, <<"connect_four", Board(C4Opening), 1>>,
                            <<"connect_four", Board(C4InPlay), 2>>} :
                games_file = [g \in GameIds |->
                    IF g # 1 THEN NoGame
                    ELSE [NewSession(1, 2, 0, FALSE, 0) EXCEPT
                             !.status = "active",
                             !.game_type = start[1],
                             !.challenger_stake = Points(MaxStake),
                             !.opponent_stake = Points(MaxStake),
                             !.board = start[2],
                             !.turn = start[3],
                             !.messages_to_delete = TrackedInPlay]]
          /\ next_id = 2
          /\ user_data = [u \in Users |->
                             CASE u = 1 -> [game_id |-> 1, player_role |-> "none"]
                               [] u = 2 -> [game_id |-> 1, player_role |-> "opponent"]
                               [] OTHER -> NoUserData]
          /\ live = [g \in GameIds |-> IF g = 1 THEN {<<"board", 0>>} ELSE {}]
          /\ audit = [g \in GameIds |->
                         IF g = 1 THEN [NoAudit EXCEPT !.ch = 1, !.op = 2, !.started = TRUE]
                         ELSE NoAudit]

NextWin ==
    \/ check_tictactoe_win_call \/ check_connect_four_win_call
    \/ tictactoe_move_handler \/ connect_four_move_followed

SpecWin == InitWin /\ [][NextWin]_vars

\* --------------------------------------------------------- a dice match
\* Session 1 is an active dice match of user 1 against user 2 over 3, 5 or 9
\* rounds, the challenger one round from winning it and the opponent one or
\* two; no roll is waiting and nobody has rolled for five minutes.
InitDice ==
    /\ LedgerIdle
    /\ \E rounds \in Rounds, behind \in 0..1 :
          games_file = [g \in GameIds |->
              IF g # 1 THEN NoGame
              ELSE [DiceStart([NewSession(1, 2, 0, FALSE, 0) EXCEPT
                                  !.game_type = "dice",
                                  !.rounds_to_play = rounds,
                                  !.challenger_stake = Points(MaxStake),
                                  !.opponent_stake = Points(MaxStake),
                                  !.messages_to_delete = TrackedInPlay \ {"board"}])
                    EXCEPT !.challenger_score = rounds \div 2,
                           !.opponent_score = (rounds \div 2) - behind,
                           !.current_round = 2 * (rounds \div 2) - behind + 1]]
    /\ points_file = [u \in Users |-> StartBalance]
    /\ negative_tracker = [u \in Users |-> 0]
    /\ clock = WarnAfter
    /\ next_run = WarnAfter + TimeStep
    /\ next_id = 2
    /\ h = HIdle
    /\ s = SIdle
    /\ conv = [u \in Users |-> "end"]
    /\ user_data = [u \in Users |->
                       CASE u = 1 -> [game_id |-> 1, player_role |-> "none"]
                         [] u = 2 -> [game_id |-> 1, player_role |-> "opponent"]
                         [] OTHER -> NoUserData]
    /\ live = [g \in GameIds |-> {}]
    /\ audit = [g \in GameIds |->
                   IF g = 1 THEN [NoAudit EXCEPT !.ch = 1, !.op = 2, !.started = TRUE]
                   ELSE NoAudit]

NextDice ==
    \/ dice_roll_handler \/ dice_roll_save
    \/ handle_game_over \/ delete_tracked_messages
    \/ check_game_inactivity \/ handle_game_cancellation
    \/ inactivity_warning \/ scheduler_delete_tracked_messages
    \/ Advance

SpecDice == InitDice /\ [][NextDice]_vars

\* The setup of a challenge, an admin's /stopgame and /cleangames, and the
\* player's next step of a setup whose session is gone.
NextAbsent ==
    \/ newgame_command \/ newgame_track_notice \/ newgame_track_setup
    \/ start_game_setup \/ game_selection \/ stake_type_selection
    \/ stake_submission_points \/ stake_submission_media
    \/ track_hint \/ show_confirmation
    \/ cancel_game_setup \/ cancel_game_setup_delete
    \/ stopgame_command \/ stopgame_stop \/ delete_tracked_messages
    \/ cleangames_command
    \/ stake_submission_points_absent \/ stake_submission_media_absent

SpecAbsent == Init /\ [][NextAbsent]_vars

\* Two sessions stored and the job with time passing: user 1 has accepted a
\* dare one period of the job before the clock starts, user 2 has just been
\* given a truth.
InitTimeout ==
    /\ tod_file = [t \in TodIds |->
                     CASE t = 1 -> AwaitingProof(1, -TimeStep)
                       [] t = 2 -> PendingAcceptance(2, "truth", 0)
                       [] OTHER -> NoTod]
    /\ punishments = <<>>
    /\ punishment_status = [u \in Users |-> {}]
    /\ ad = [c \in Callers |-> NoFrame]
    /\ tod_menu = [NoMenu EXCEPT !.next_id = MaxTod + 1]
    /\ notes = NoNotes
    /\ games_file = [g \in GameIds |-> NoGame]
    /\ points_file = [u \in Users |-> IF u = 1 THEN MaxBalance ELSE StartBalance]
    /\ negative_tracker = [u \in Users |-> 0]
    /\ clock = 0
    /\ next_run = TimeStep
    /\ next_id = 1
    /\ h = HIdle
    /\ s = SIdle
    /\ conv = [u \in Users |-> "end"]
    /\ user_data = [u \in Users |-> NoUserData]
    /\ live = [g \in GameIds |-> {}]
    /\ audit = [g \in GameIds |-> NoAudit]

NextTimeout ==
    \/ tod_start_proof_handler \/ tod_refuse_handler \/ tod_refuse_save
    \/ tod_handle_proof_submission \/ tod_hint \/ tod_proof_save
    \/ check_for_negative_points_member \/ check_for_negative_points_mute
    \/ check_game_inactivity \/ tod_inactivity_warning
    \/ handle_tod_timeout \/ handle_tod_timeout_finish
    \/ Advance

SpecTimeout == InitTimeout /\ [][NextTimeout]_vars

\* The same group when calls to Telegram may fail.
NextFail ==
    \/ conversation_handler_points
    \/ check_for_punishment_notify \/ check_for_punishment_arm
    \/ check_for_negative_points_member \/ check_for_negative_points_mute
    \/ check_for_negative_points_third
    \/ check_game_inactivity \/ tod_inactivity_warning
    \/ handle_tod_timeout \/ handle_tod_timeout_finish
    \/ add_user_points_fails \/ check_for_negative_points_mute_fails
    \/ handle_tod_timeout_fails
    \/ Advance

SpecFail == InitLedger /\ [][NextFail]_vars

\* --------------------------------------------------- a session being set up
\* Session 1 as /newgame leaves it, user 1 challenging user 2.
InitSetup ==
    /\ LedgerIdle
    /\ games_file = [g \in GameIds |->
          IF g # 1 THEN NoGame
          ELSE [NewSession(1, 2, 0, FALSE, 0) EXCEPT !.messages_to_delete = {"notice", "setup_c"}]]
    /\ points_file = [u \in Users |-> StartBalance]
    /\ negative_tracker = [u \in Users |-> 0]
    /\ clock = 0
    /\ next_run = TimeStep
    /\ next_id = 2
    /\ h = HIdle
    /\ s = SIdle
    /\ conv = [u \in Users |-> "end"]
    /\ user_data = [u \in Users |-> NoUserData]
    /\ live = [g \in GameIds |-> IF g = 1 THEN {<<"setup_c", 1>>} ELSE {}]
    /\ audit = [g \in GameIds |-> IF g = 1 THEN [NoAudit EXCEPT !.ch = 1, !.op = 2]
                                  ELSE NoAudit]

\* The challenger's setup of the session and the opponent's answer to the
\* challenge, the cancellation by the challenger or an admin, and the
\* inactivity job, with time passing.
NextSetup ==
    \/ start_game_setup \/ restart_game_setup \/ game_selection
    \/ stake_type_selection \/ stake_submission_points \/ stake_submission_media
    \/ track_hint \/ show_confirmation
    \/ confirm_game_setup_challenger \/ send_challenge_to_opponent
    \/ challenge_response_handler \/ challenge_accepted \/ challenge_refused
    \/ cancel_game_setup \/ cancel_game_setup_delete
    \/ delete_tracked_messages
    \/ stopgame_command \/ stopgame_stop
    \/ check_game_inactivity \/ handle_challenge_timeout \/ handle_game_cancellation
    \/ inactivity_warning \/ scheduler_delete_tracked_messages
    \/ Advance

SpecSetup == InitSetup /\ [][NextSetup]_vars

\* ------------------------------------------------- a challenge just sent
\* the messages tracked for a session when its challenge has been posted
TrackedChallenge == {"notice", "setup_c", "confirm_c", "challenge"}

\* Session 1 as send_challenge_to_opponent leaves it: user 1 has staked and
\* confirmed, the challenge to user 2 is in the group chat.
InitAnswer ==
    /\ LedgerIdle
    /\ \E cs \in StakeChoices :
          games_file = [g \in GameIds |->
              IF g # 1 THEN NoGame
              ELSE [NewSession(1, 2, 0, FALSE, 0) EXCEPT
                       !.status = "pending_opponent_acceptance",
                       !.game_type = "tictactoe",
                       !.challenger_stake = cs,
                       !.board = TTTEmpty,
                       !.turn = 1,
                       !.messages_to_delete = TrackedChallenge]]
    /\ points_file = [u \in Users |-> StartBalance]
    /\ negative_tracker = [u \in Users |-> 0]
    /\ clock = 0
    /\ next_run = TimeStep
    /\ next_id = 2
    /\ h = HIdle
    /\ s = SIdle
    /\ conv = [u \in Users |-> "end"]
    /\ user_data = [u \in Users |-> IF u = 1 THEN [game_id |-> 1, player_role |-> "none"]
                                    ELSE NoUserData]
    /\ live = [g \in GameIds |-> IF g = 1 THEN {<<"challenge", 0>>} ELSE {}]
    /\ audit = [g \in GameIds |-> IF g = 1 THEN [NoAudit EXCEPT !.ch = 1, !.op = 2]
                                  ELSE NoAudit]

\* The opponent's answer, the opponent's setup up to the start of the game,
\* and the ways to end the session from there, the clock standing still.
NextAnswer ==
    \/ challenge_response_handler \/ challenge_accepted \/ challenge_refused
    \/ start_opponent_setup \/ restart_game_setup \/ game_selection
    \/ stake_type_selection \/ stake_submission_points \/ stake_submission_media
    \/ track_hint \/ show_confirmation
    \/ confirm_game_setup_opponent \/ start_game \/ start_game_on \/ start_game_board
    \/ cancel_game_setup \/ cancel_game_setup_delete
    \/ delete_tracked_messages
    \/ loser_command \/ handle_game_over
    \/ stopgame_command \/ stopgame_stop

SpecAnswer == InitAnswer /\ [][NextAnswer]_vars

\* ------------------------------------------------------------ properties
\* what a player who forfeits stake owes: one deduction or one posting
Forfeit(u, stake) ==
    IF stake.type = "points" THEN <<Delta(u, -stake.value)>> ELSE <<Media(u)>>

BothForfeit(game) ==
    Forfeit(game.challenger_id, game.challenger_stake)
        \o Forfeit(game.opponent_id, game.opponent_stake)

\* this step applies to the ledger exactly effs, on behalf of session g
Applies(g, effs) ==
    LET r == ApplyEffects(points_file, negative_tracker, effs)
    IN  /\ points_file' = r.p
        /\ negative_tracker' = r.t
        /\ audit'[g].last = effs
        /\ audit'[g].nd = audit[g].nd + NumDeltas(effs)

LedgerUntouched(g) ==
    /\ points_file' = points_file
    /\ negative_tracker' = negative_tracker
    /\ audit'[g].nd = audit[g].nd

\* C1: the stakes of a session are settled (by handle_game_over,
\* handle_game_draw or handle_game_cancellation) at most once in the whole
\* run, and its stored status turns 'complete' at most once.
C1_SettledOnce ==
    \A g \in GameIds : audit[g].settles <= 1 /\ audit[g].completes <= 1

\* C2: in every reachable state the group has at most one stored session
\* whose status is not 'complete'.
C2_OneNonComplete == Cardinality(ActiveInGroup(games_file)) <= 1

\* C3: once a stored session is 'complete', no step changes its status,
\* board or stakes (it may only be removed), and none applies a ledger delta
\* on its behalf.
C3_CompleteIsInert ==
    [][\A g \in GameIds :
          games_file[g].status = "complete" =>
             /\ games_file'[g].status \in {"complete", "absent"}
             /\ games_file'[g].status = "complete" =>
                   /\ games_file'[g].board = games_file[g].board
                   /\ games_file'[g].challenger_stake = games_file[g].challenger_stake
                   /\ games_file'[g].opponent_stake = games_file[g].opponent_stake
             /\ audit'[g].nd = audit[g].nd]_vars

\* the four fields of a stored session that C4 names
Fields4(game) ==
    <<game.status, game.last_activity, game.messages_to_delete, game.board>>

\* this step stores, for one of the four fields of some session, a value that
\* differs from the stored one and is the value of the copy the coroutine
\* loaded earlier: what another coroutine stored in between is lost
WritesBack(data) ==
    /\ data # NoData
    /\ \E g \in GameIds, i \in 1..4 :
          /\ Fields4(games_file'[g])[i] # Fields4(games_file[g])[i]
          /\ Fields4(games_file'[g])[i] = Fields4(data[g])[i]

\* C4: no update of the store is lost: no coroutine, the handler in progress
\* or the inactivity job, saves over the status, last_activity, tracked
\* messages or board that the other one stored after it loaded its copy.
C4_NoLostUpdate ==
    [][/\ h' # h => ~WritesBack(h.data)
       /\ s' # s => ~WritesBack(s.data) /\ ~WritesBack(s.inner)]_vars

\* C5: a move attempted by anyone but the turn holder leaves board and turn
\* as they are, and the stored board of a session changes only in a step of
\* a move handler invoked by the player whose turn it is.
C5_BoardOnlyByTurnHolder ==
    [][\A g \in GameIds :
          /\ \A u \in Users :
                (/\ h.pc = "idle"
                 /\ games_file[g].status = "active"
                 /\ games_file[g].turn # u
                 /\ \/ \E r \in 0..2, c \in 0..2 : TTTMove(u, g, r, c)
                    \/ \E col \in 0..6 : C4Move(u, g, col))
                => /\ games_file'[g].board = games_file[g].board
                   /\ games_file'[g].turn = games_file[g].turn
          /\ (Present(games_file, g) /\ Present(games_file', g)
                 /\ games_file'[g].board # games_file[g].board)
                => \/ /\ h.pc = "idle"
                      /\ \E u \in Users :
                            /\ games_file[g].turn = u
                            /\ \/ \E r \in 0..2, c \in 0..2 : TTTMove(u, g, r, c)
                               \/ \E col \in 0..6 : C4Move(u, g, col)
                   \/ connect_four_draw /\ h.gid = g /\ h.data[g].turn = h.user]_vars

\* C6: a move that is rejected changes nothing in the stored record of the
\* session, last_activity and warning_sent included.
C6_RejectedMoveChangesNothing ==
    [][\A u \in Users, g \in GameIds :
          LET gf1 == update_game_activity(games_file, g, clock)
          IN  /\ \A r \in 0..2, c \in 0..2 :
                    (h.pc = "idle" /\ TTTMove(u, g, r, c) /\ TTTRejected(gf1, u, g, r, c))
                    => games_file'[g] = games_file[g]
              /\ \A col \in 0..6 :
                    (h.pc = "idle" /\ C4Move(u, g, col) /\ C4Rejected(gf1, u, g, col))
                    => games_file'[g] = games_file[g]]_vars

\* C7: the settlement of a win depends on the loser's stake only: for
\* Points(n) it applies exactly the two deltas +n to the winner and -n to the
\* loser, for a media stake it applies no delta; the winner's own stake
\* yields no delta.
C7_WinSettlesLoserStake ==
    [][handle_game_over =>
          LET game == h.data[h.gid]
              loser_stake == IF game.challenger_id = h.l THEN game.challenger_stake
                             ELSE game.opponent_stake
          IN  IF loser_stake.type = "points"
              THEN Applies(h.gid, <<Delta(h.w, loser_stake.value),
                                    Delta(h.l, -loser_stake.value)>>)
              ELSE LedgerUntouched(h.gid) /\ audit'[h.gid].last = <<Media(h.l)>>]_vars

\* a win was settled once with two deltas while the winner had staked a photo
C7_Witness ==
    \E g \in GameIds :
        /\ audit[g].by = "over"
        /\ audit[g].settles = 1
        /\ audit[g].nd = 2
        /\ games_file[g].status = "complete"
        /\ games_file[g].winner_id = games_file[g].challenger_id
        /\ games_file[g].challenger_stake = Photo
        /\ games_file[g].opponent_stake.type = "points"

\* C8: when a game ends in a draw, the step that closes the session applies
\* both forfeits (each points stake deducted from its owner, each media stake
\* posted) and stores the session as 'complete'.
C8_DrawForfeitsBoth ==
    [][(handle_game_draw \/ connect_four_draw) =>
          /\ Applies(h.gid, BothForfeit(h.data[h.gid]))
          /\ games_file'[h.gid].status = "complete"]_vars

\* C9 as claimed: /stopgame on an active session makes both players forfeit
\* their stakes as in a draw and stores the session as 'complete'.
C9_StopForfeitsBoth ==
    [][(stopgame_stop /\ h.data[h.gid].status = "active") =>
          /\ Applies(h.gid, BothForfeit(h.data[h.gid]))
          /\ games_file'[h.gid].status = "complete"]_vars

\* C9 amended: /stopgame on an active session stores the session as
\* 'complete' and forfeits nothing: no ledger delta, no media posted.
C9_StopForfeitsNothing ==
    [][(stopgame_stop /\ h.data[h.gid].status = "active") =>
          /\ LedgerUntouched(h.gid)
          /\ audit'[h.gid].last = <<>>
          /\ games_file'[h.gid].status = "complete"]_vars

\* an active session with a points stake was stopped, and nothing was charged
C9_Witness ==
    \E g \in GameIds :
        /\ audit[g].by = "stop"
        /\ audit[g].nd = 0
        /\ games_file[g].status = "complete"
        /\ games_file[g].challenger_stake.type = "points"
        /\ points_file[games_file[g].challenger_id] = StartBalance

\* C10: when the inactivity job cancels an active session it found idle for
\* more than 420 s, the step stores the session as 'complete' and applies
\* both forfeits, one for each player.
C10_TimeoutForfeitsBoth ==
    [][(handle_game_cancellation /\ s.data[s.gid].status = "active"
            /\ s.now - s.data[s.gid].last_activity > CancelAfter) =>
          /\ Applies(s.gid, BothForfeit(s.inner[s.gid]))
          /\ games_file'[s.gid].status = "complete"]_vars

\* the job has cancelled a session for inactivity and charged both players
C10_Witness ==
    \E g \in GameIds :
        /\ audit[g].by = "cancel"
        /\ audit[g].settles = 1
        /\ Len(audit[g].last) = 2
        /\ games_file[g].status = "complete"
        /\ clock - games_file[g].last_activity > CancelAfter

\* the statuses of a session that its opponent has not yet accepted
PreAcceptance == {"pending_game_selection", "pending_opponent_acceptance"}

\* this step forfeits nothing on behalf of session g: no ledger delta is
\* applied, and if it settles anything it posts no media
NoForfeit(g) ==
    /\ LedgerUntouched(g)
    /\ audit'[g] = audit[g] \/ audit'[g].last = <<>>

\* C11: a cancellation of a session that the opponent has not yet accepted
\* (status pending_game_selection or pending_opponent_acceptance), be it by
\* the inactivity job, by /stopgame or by the challenger's Cancel button,
\* applies no ledger delta and posts no media, whatever stake is staged.
C11_NoForfeitBeforeAcceptance ==
    [][/\ handle_challenge_timeout => NoForfeit(s.gid)
       /\ (handle_game_cancellation /\ s.inner[s.gid].status \in PreAcceptance)
             => NoForfeit(s.gid)
       /\ (stopgame_stop /\ h.data[h.gid].status \in PreAcceptance) => NoForfeit(h.gid)
       /\ \A g \in GameIds :
             ((cancel_game_setup \/ cancel_game_setup_delete)
                 /\ games_file[g].status \in PreAcceptance
                 /\ games_file'[g].status = "absent") => NoForfeit(g)]_vars

\* C12: when the opponent refuses a challenge that is no revenge, the step
\* forfeits exactly the challenger's staged stake (one deduction of its
\* points from the challenger, or one posting of its media), leaves the
\* opponent's balance as it is, and removes the session, which has never
\* been 'active'.
C12_RefusalForfeitsChallengerStake ==
    [][(challenge_refused /\ ~h.data[h.gid].is_revenge) =>
          LET game == h.data[h.gid]
          IN  /\ Applies(h.gid, Forfeit(game.challenger_id, game.challenger_stake))
              /\ points_file'[game.opponent_id] = points_file[game.opponent_id]
              /\ games_file'[h.gid].status = "absent"
              /\ ~audit[h.gid].started]_vars

\* a challenge with a points stake was refused: the session is gone, the
\* challenger has paid the stake once and the opponent nothing
C12_Witness ==
    \E g \in GameIds :
        /\ audit[g].by = "refuse"
        /\ audit[g].nd = 1
        /\ audit[g].last = <<Delta(audit[g].ch, -MaxStake)>>
        /\ games_file[g].status = "absent"
        /\ points_file[audit[g].ch] = StartBalance - MaxStake
        /\ points_file[audit[g].op] = StartBalance

\* ---------------------------------------------------------------- C13
\* C13: a punishment rule notifies for a user on a crossing from at or above
\* its threshold to below it while it is not armed, and an add_user_points
\* that leaves the balance at or above the threshold disarms it; hence
\* between two notifications of the same rule for the same user there is an
\* add_user_points whose new balance is at or above the threshold: no rule
\* has notified twice since the last such call.
C13_RefireNeedsDisarm ==
    \A u \in Users : \A r \in Thresholds : notes.since[u][r] <= 1

\* ---------------------------------------------------------------- C14
\* the call of caller c returns in this step, having run with no step of
\* the other caller inside it
ReturnsAlone(c) ==
    ad[c].pc # "idle" /\ ad'[c].pc = "idle" /\ ad[c].alone

\* user u is muted, the balance put at zero and the stored counter at n
MuteAndReset(u, n) ==
    /\ notes'.ev = {<<"mute", u>>}
    /\ points_file'[u] = 0
    /\ negative_tracker'[u] = n

C15_CounterBelowThree ==
    \A u \in Users : negative_tracker[u] \in 0..2

\* ---------------------------------------------------------------- C16
\* C16: whenever the balance of a user becomes non-negative the strike
\* counter of the user is 0 afterwards: in every state with nobody in
\* add_user_points, a balance of 0 or more goes with a counter of 0.
C16_NonNegativeMeansNoStrikes ==
    (\A c \in Callers : ad[c].pc = "idle") =>
        \A u \in Users : points_file[u] >= 0 => negative_tracker[u] = 0

\* C16, amended: an add_user_points call that leaves the balance of a user
\* at 0 or more leaves the stored strike counter of the user at 0 as it
\* writes the balance.  (The balance a mute puts at 0 keeps its counter.)
C16_NonNegativeDeltaClears ==
    [][(conversation_handler_points \/ handle_tod_timeout) =>
          \A u \in Users :
             (points_file'[u] # points_file[u] /\ points_file'[u] >= 0) =>
                 negative_tracker'[u] = 0]_vars

\* a call has just cleared the strikes of user 1
C16_Witness ==
    /\ notes.ev = {<<"cleared", 1>>}
    /\ points_file[1] >= 0
    /\ negative_tracker[1] = 0

\* ---------------------------------------------------------------- C17
\* C17: add_user_points is atomic: from the write of the new balance to the
\* end of the punishment and strike checks made on it, no step of anyone
\* else changes that balance.  Every own step of a call moves its pc.
C17_AtomicApplyDelta ==
    [][\A c \in Callers :
          (ad[c].pc # "idle" /\ ad'[c].pc = ad[c].pc) =>
              points_file'[ad[c].user] = points_file[ad[c].user]]_vars

\* ---------------------------------------------------------------- C18
\* C18: a call to Telegram that fails during a settlement or during the
\* checks of add_user_points is swallowed: the truth-or-dare session that
\* timed out is charged once and no more, and once the job has charged it
\* and is at rest the session is deleted.
C18_FailureSwallowed ==
    \A t \in TodIds :
       /\ notes.charged[t] <= 1
       /\ (notes.charged[t] = 1 /\ s.pc = "idle") => tod_file[t].status = "absent"

\* ---------------------------------------------------------------- C19
\* the slot of user u in a session: the challenger's or the opponent's
OwnStake(game, u) ==
    IF u = game.challenger_id THEN game.challenger_stake ELSE game.opponent_stake

OtherStake(game, u) ==
    IF u = game.challenger_id THEN game.opponent_stake ELSE game.challenger_stake

\* C19: a points stake that is no integer, not positive or above the balance
\* of the submitter is rejected with both stakes, the status and the ledger
\* as they were; an accepted one stores Points(amount), 0 < amount <=
\* balance, in the slot of the submitter's own role, leaves the other slot
\* as it was and changes no balance.
C19_PointsStakeSubmission ==
    [][stake_submission_points =>
          LET u == h'.user
              old == games_file[h'.gid]
              new == games_file'[h'.gid]
          IN  /\ points_file' = points_file
              /\ new.status = old.status
              /\ OtherStake(new, u) = OtherStake(old, u)
              /\ IF h'.pc = "hint"
                 THEN OwnStake(new, u) = OwnStake(old, u)
                 ELSE /\ OwnStake(new, u).type = "points"
                      /\ OwnStake(new, u).value > 0
                      /\ OwnStake(new, u).value <= points_file[u]]_vars

\* ---------------------------------------------------------------- C20
\* C20: the job warns a two-player session at most once per idle period and
\* never a session idle for 300 s or less: when the warning goes out the
\* session has had no warning since its last activity, and that activity
\* is more than 300 s old.
C20_WarningOncePerIdlePeriod ==
    [][inactivity_warning =>
          /\ ~games_file[s.gid].warning_sent
          /\ clock - games_file[s.gid].last_activity > WarnAfter]_vars

\* ---------------------------------------------------------------- C21
\* the statuses of a session that is neither over nor gone
Unfinished == {"pending_game_selection", "pending_opponent_acceptance",
               "pending_opponent_stake", "active"}

\* Session 1 left alone in any of these statuses since clock 0, with the
\* stakes staged so far.
InitIdle ==
    /\ LedgerIdle
    /\ \E status \in Unfinished, cs \in StakeChoices \cup {NoStake},
          os \in StakeChoices \cup {NoStake} :
          /\ status = "pending_game_selection" => os = NoStake
          /\ status # "pending_game_selection" => cs # NoStake
          /\ status = "pending_opponent_acceptance" => os = NoStake
          /\ status = "active" => os # NoStake
          /\ games_file = [g \in GameIds |->
                IF g # 1 THEN NoGame
                ELSE [NewSession(1, 2, 0, FALSE, 0) EXCEPT
                         !.status = status,
                         !.game_type = "tictactoe",
                         !.challenger_stake = cs,
                         !.opponent_stake = os,
                         !.messages_to_delete = {"notice", "setup_c"}]]
    /\ points_file = [u \in Users |-> StartBalance]
    /\ negative_tracker = [u \in Users |-> 0]
    /\ clock = 0
    /\ next_run = TimeStep
    /\ next_id = 2
    /\ h = HIdle
    /\ s = SIdle
    /\ conv = [u \in Users |-> "end"]
    /\ user_data = [u \in Users |-> NoUserData]
    /\ live = [g \in GameIds |-> {}]
    /\ audit = [g \in GameIds |-> IF g = 1 THEN [NoAudit EXCEPT !.ch = 1, !.op = 2]
                                  ELSE NoAudit]

\* nobody sends anything: the job and the clock alone
NextIdle ==
    \/ check_game_inactivity \/ handle_challenge_timeout \/ handle_game_cancellation
    \/ inactivity_warning \/ scheduler_delete_tracked_messages
    \/ Advance

\* the job is run again and again, its calls to Telegram return and time
\* passes
SpecIdle ==
    /\ InitIdle
    /\ [][NextIdle]_vars
    /\ WF_vars(check_game_inactivity)
    /\ WF_vars(handle_challenge_timeout)
    /\ WF_vars(handle_game_cancellation)
    /\ WF_vars(inactivity_warning)
    /\ WF_vars(scheduler_delete_tracked_messages)
    /\ WF_vars(Advance)

\* C21: no two-player session gets stuck: with the job run again and again,
\* time passing, Telegram answering and nobody sending anything, a session
\* that is pending_game_selection, pending_opponent_acceptance,
\* pending_opponent_stake or active is in the end 'complete'.
C21_EventuallyComplete ==
    \A g \in GameIds :
       (games_file[g].status \in Unfinished) ~> (games_file[g].status = "complete")

\* the job has put session 1 at 'complete'
C21_Witness ==
    /\ games_file[1].status = "complete"
    /\ audit[1].by \in {"timeout", "cancel"}
    /\ s.pc = "idle"

\* ---------------------------------------------------------------- C22
\* One truth-or-dare session stored since clock 0, given or accepted, and a
\* subject that sends nothing more.
InitTodIdle ==
    /\ \E u \in Players, type \in TodTypes,
          status \in {"pending_acceptance", "awaiting_proof"} :
          tod_file = [t \in TodIds |->
                         IF t = 1 THEN [PendingAcceptance(u, type, 0) EXCEPT !.status = status]
                         ELSE NoTod]
    /\ punishments = <<>>
    /\ punishment_status = [u \in Users |-> {}]
    /\ ad = [c \in Callers |-> NoFrame]
    /\ tod_menu = [NoMenu EXCEPT !.next_id = 2]
    /\ notes = NoNotes
    /\ games_file = [g \in GameIds |-> NoGame]
    /\ points_file = [u \in Users |-> StartBalance]
    /\ negative_tracker = [u \in Users |-> 0]
    /\ clock = 0
    /\ next_run = TimeStep
    /\ next_id = 1
    /\ h = HIdle
    /\ s = SIdle
    /\ conv = [u \in Users |-> "end"]
    /\ user_data = [u \in Users |-> NoUserData]
    /\ live = [g \in GameIds |-> {}]
    /\ audit = [g \in GameIds |-> NoAudit]

NextTodIdle ==
    \/ check_game_inactivity \/ tod_inactivity_warning
    \/ handle_tod_timeout \/ handle_tod_timeout_finish
    \/ check_for_negative_points_member \/ check_for_negative_points_mute
    \/ Advance

\* the job is run again and again, its calls to Telegram return and time
\* passes
SpecTodIdle ==
    /\ InitTodIdle
    /\ [][NextTodIdle]_vars
    /\ WF_vars(check_game_inactivity)
    /\ WF_vars(tod_inactivity_warning)
    /\ WF_vars(handle_tod_timeout)
    /\ WF_vars(handle_tod_timeout_finish)
    /\ WF_vars(check_for_negative_points_member)
    /\ WF_vars(check_for_negative_points_mute)
    /\ WF_vars(Advance)

\* C22: no truth-or-dare session gets stuck: with the job run again and
\* again, time passing, Telegram answering and the subject sending nothing
\* more, every stored session, pending_acceptance or awaiting_proof, is in
\* the end deleted.
C22_TodEventuallyDestroyed ==
    \A t \in TodIds : (tod_file[t].status # "absent") ~> (tod_file[t].status = "absent")

\* ---------------------------------------------------------------- C23
SessionsOf(u) == {t \in TodIds : tod_file[t].status # "absent" /\ tod_file[t].user_id = u}

\* C23: at most one truth-or-dare session is stored per user of the group,
\* also when /dareme is issued several times, by the same or by different
\* users, before any truth/dare choice is made.
C23_OneSessionPerUser ==
    \A u \in Users : Cardinality(SessionsOf(u)) <= 1

\* ---------------------------------------------------------------- C24
\* C24: a message of the matching kind sent for a session awaiting proof
\* awards the subject +15 exactly once and deletes the session: no session
\* is ever awarded twice.
C24_ProofAwardedOnce ==
    \A t \in TodIds : notes.awarded[t] <= 1

\* ---------------------------------------------------------------- C25
\* C25: a session awaiting proof for more than 420 s at a tick is deleted
\* and exactly one delta of -15 is applied to its subject: no session is
\* ever charged twice.
C25_TimeoutChargedOnce ==
    \A t \in TodIds : notes.charged[t] <= 1

\* ---------------------------------------------------------------- C26
\* session g is stored by this step as a revenge session
RevengeCreated(g) ==
    /\ ~Present(games_file, g)
    /\ Present(games_file', g)
    /\ games_file'[g].is_revenge

\* C26: a revenge session is created only from a 'complete' session with a
\* recorded winner and loser, only on the request of that session's loser
\* and only if the group has no non-complete session; its challenger is
\* the old loser, its opponent the old winner, its status
\* pending_game_selection and it refers back to the old session.
C26_RevengeCreation ==
    [][\A g \in GameIds :
          RevengeCreated(g) =>
              /\ games_file'[g].old_game_id \in GameIds
              /\ games_file'[g].old_game_id = h.gid
              /\ LET old == games_file[games_file'[g].old_game_id]
                 IN  /\ old.status = "complete"
                     /\ old.winner_id # 0
                     /\ old.loser_id # 0
                     /\ h.user = old.loser_id
                     /\ games_file'[g].challenger_id = old.loser_id
                     /\ games_file'[g].opponent_id = old.winner_id
              /\ ActiveInGroup(games_file) = {}
              /\ games_file'[g].status = "pending_game_selection"]_vars

\* a revenge session is stored next to the complete session it comes from
C26_Witness ==
    \E g \in GameIds :
        /\ Present(games_file, g)
        /\ games_file[g].is_revenge
        /\ games_file[g].old_game_id \in GameIds
        /\ games_file[games_file[g].old_game_id].status = "complete"
        /\ games_file[g].challenger_id = games_file[games_file[g].old_game_id].loser_id

\* ---------------------------------------------------------------- C27
\* a step of a setup or its cancellation addressed to a session that is not
\* stored
AbsentOperation ==
    \/ stake_submission_points_absent
    \/ stake_submission_media_absent
    \/ /\ cancel_game_setup
       /\ \E u \in Players :
             /\ conv[u] # "end"
             /\ conv'[u] = "end"
             /\ user_data[u].game_id \in GameIds
             /\ ~Present(games_file, user_data[u].game_id)

\* C27: an operation addressed to a session id that is not stored ends
\* without raising and leaves the session store, the truth-or-dare store
\* and the ledger as they are.
C27_AbsentIdHarmless ==
    [][AbsentOperation =>
          /\ ~notes'.raised
          /\ UNCHANGED <<games_file, tod_file, points_file, negative_tracker>>]_vars

\* the stores stay as they are whatever the outcome of such an operation
C27_AbsentIdStoresUnchanged ==
    [][AbsentOperation =>
          UNCHANGED <<games_file, tod_file, points_file, negative_tracker>>]_vars

\* ---------------------------------------------------------------- C28
\* the straight lines of n cells of a grid of the given rows and columns:
\* the sets of n cells met from a cell by n - 1 equal steps to a neighbour
LinesOf(rows, cols, n) ==
    {line \in {{<<sd[1] + i * sd[3], sd[2] + i * sd[4]>> : i \in 0..(n - 1)} :
                  sd \in rows \X cols \X (-1..1) \X (-1..1)} :
        /\ Cardinality(line) = n
        /\ line \subseteq rows \X cols}

TTTLines == LinesOf(0..2, 0..2, 3)

C4Lines == LinesOf(0..5, 0..6, 4)

Owns(board, p, lines) == \E line \in lines : \A rc \in line : board[rc[1]][rc[2]] = p

\* the boards a press of the player to move on an empty cell can give
AfterPress(game) ==
    LET p == IF game.turn = game.challenger_id THEN 1 ELSE 2
    IN  {[game.board EXCEPT ![rc[1]][rc[2]] = p] :
            rc \in {x \in (DOMAIN game.board) \X (DOMAIN game.board[0]) :
                       game.board[x[1]][x[2]] = 0}}

LinesFor(game) == IF game.game_type = "tictactoe" THEN TTTLines ELSE C4Lines

\* C28: check_connect_four_win(board, p) is true exactly when p holds one of
\* the 69 lines of four of the 6x7 grid, check_tictactoe_win exactly when p
\* holds one of the 8 lines of the 3x3 grid; in play a win is declared on
\* the move that completes the first such line and on no earlier move.
C28_WinExactlyOnALine ==
    [][/\ Cardinality(TTTLines) = 8
       /\ Cardinality(C4Lines) = 69
       /\ check_tictactoe_win_call => (h'.w = 1 <=> Owns(h.board, h.user, TTTLines))
       /\ check_connect_four_win_call => (h'.w = 1 <=> Owns(h.board, h.user, C4Lines))
       /\ \A g \in GameIds :
             (h.pc = "idle" /\ Present(games_file, g) /\ games_file[g].status = "active") =>
                LET game == games_file[g]
                    p == IF game.turn = game.challenger_id THEN 1 ELSE 2
                IN  /\ ~Owns(game.board, 1, LinesFor(game))
                    /\ ~Owns(game.board, 2, LinesFor(game))
                    /\ (h'.pc = "game_over_load" /\ h'.gid = g) =>
                          /\ h'.w = game.turn
                          /\ \E board \in AfterPress(game) : Owns(board, p, LinesFor(game))
                    /\ games_file'[g].board # game.board =>
                          /\ games_file'[g].board \in AfterPress(game)
                          /\ ~Owns(games_file'[g].board, p, LinesFor(game))]_vars

\* the connect-four check has answered yes for a board with a diagonal
\* that rises to the right
C28_Witness ==
    /\ h.pc = "checked"
    /\ h.w = 1
    /\ DOMAIN h.board = 0..5
    /\ \E r \in 3..5, c \in 0..3 : \A i \in 0..3 : h.board[r - i][c + i] = h.user

\* a win has been declared in play
C28_WitnessInPlay ==
    /\ h.pc = "game_over_load"
    /\ games_file[h.gid].status = "active"

\* ---------------------------------------------------------------- C29
ScoreOf(game, u) ==
    IF u = game.challenger_id THEN game.challenger_score ELSE game.opponent_score

\* a dice match that is going on: no counter has reached the rounds needed
\* and the round played is the one after the rounds won
DiceGoingOn(game) ==
    /\ game.challenger_score <= game.rounds_to_play \div 2
    /\ game.opponent_score <= game.rounds_to_play \div 2
    /\ game.current_round = game.challenger_score + game.opponent_score + 1

\* the roll handler goes into the settlement of session g with this step
DiceSettles(g) ==
    /\ h.pc = "dice_roll"
    /\ h.gid = g
    /\ h'.pc = "game_over"

\* C29: a dice match over N rounds ends on the round win that first brings
\* a counter to floor(N/2)+1: that player is the winner and the settlement
\* runs with the other player as loser; before that, whenever no handler
\* is at work on it, the session is active with both counters at most
\* floor(N/2) and current_round one more than the sum of the counters.
C29_DiceMatchEnd ==
    [][\A g \in GameIds :
          /\ (h.pc = "idle" /\ Present(games_file, g) /\ games_file[g].game_type = "dice"
                            /\ games_file[g].status = "active")
                => DiceGoingOn(games_file[g])
          /\ DiceSettles(g) =>
                /\ DiceGoingOn(games_file[g])
                /\ ScoreOf(games_file'[g], h'.w) = (games_file[g].rounds_to_play \div 2) + 1
                /\ ScoreOf(games_file[g], h'.w) = games_file[g].rounds_to_play \div 2
                /\ h'.l = Other(games_file[g], h'.w)
                /\ ScoreOf(games_file'[g], h'.l) = ScoreOf(games_file[g], h'.l)]_vars

\* ---------------------------------------------------------------- C30
\* the second roll of a round of session g equals the first and the handler
\* saves
DiceTie(g) ==
    /\ h.pc = "dice_roll"
    /\ h.gid = g
    /\ h.data[g].last_roll # NoRoll
    /\ h.data[g].last_roll.value = h.w
    /\ h'.pc = "idle"

\* C30: when the two rolls of a round are equal neither counter changes,
\* the round number does not advance and the waiting roll is cleared; the
\* two rolls of a round always come from two different players.
C30_DiceTie ==
    [][\A g \in GameIds :
          /\ DiceTie(g) =>
                /\ games_file'[g].challenger_score = games_file[g].challenger_score
                /\ games_file'[g].opponent_score = games_file[g].opponent_score
                /\ games_file'[g].current_round = games_file[g].current_round
                /\ games_file'[g].last_roll = NoRoll
          /\ (h.pc = "dice_roll" /\ h.gid = g /\ h.data[g].last_roll # NoRoll)
                => h.data[g].last_roll.user_id # h.user]_vars

\* ---------------------------------------------------------------- C31
\* no piece of a connect-four board lies over an empty cell of its column
Gravity(board) ==
    \A r \in 0..4, c \in 0..6 : board[r][c] # 0 => board[r + 1][c] # 0

\* the boards that differ from board in one cell of column col only, empty
\* before with every cell under it filled, and holding p after
DropsIn(board, col, p) ==
    {[board EXCEPT ![r][col] = p] :
        r \in {x \in 0..5 : board[x][col] = 0 /\ \A y \in (x + 1)..5 : board[y][col] # 0}}

ColumnFull(board, col) == \A r \in 0..5 : board[r][col] # 0

\* C31: a connect-four move in column c by the player to move fills the
\* lowest empty cell of column c with that player's mark and changes no
\* other cell (the board of a winning move is the one the win is declared
\* on, the board of a drawing move the one saved with the draw); a move in
\* a full column is rejected with board and turn unchanged; on every stored
\* connect-four board no filled cell lies over an empty cell of its column.
C31_DropsToLowestEmpty ==
    /\ [](\A g \in GameIds :
             (Present(games_file, g) /\ games_file[g].game_type = "connect_four")
                => Gravity(games_file[g].board))
    /\ [][\A u \in Users, g \in GameIds, col \in 0..6 :
             (/\ h.pc = "idle"
              /\ Present(games_file, g)
              /\ games_file[g].status = "active"
              /\ games_file[g].game_type = "connect_four"
              /\ games_file[g].turn = u
              /\ C4Move(u, g, col)) =>
                LET game == games_file[g]
                    p == IF u = game.challenger_id THEN 1 ELSE 2
                IN  IF ColumnFull(game.board, col)
                    THEN /\ games_file'[g].board = game.board
                         /\ games_file'[g].turn = game.turn
                         /\ games_file'[g].status = "active"
                         /\ h' = HIdle
                    ELSE \/ /\ h'.pc = "game_over_load"
                            /\ h'.w = u
                            /\ \E board \in DropsIn(game.board, col, p) :
                                  check_connect_four_win(board, p)
                         \/ /\ h'.pc = "c4_draw"
                            /\ h'.board \in DropsIn(game.board, col, p)
                         \/ /\ h'.pc = "idle"
                            /\ games_file'[g].board \in DropsIn(game.board, col, p)]_vars

\* a piece of the challenger lies on the two pieces of column 3 of the
\* opening
C31_Witness ==
    /\ Present(games_file, 1)
    /\ games_file[1].game_type = "connect_four"
    /\ games_file[1].board[3][3] = 1
    /\ games_file[1].board[4][3] = 2
    /\ games_file[1].board[2][3] = 0

\* ------------------------------------------------------------ battleship
\* BATTLESHIP_SHIPS in the order of its keys
BATTLESHIP_SHIPS ==
    <<[name |-> "Carrier", size |-> 5], [name |-> "Battleship", size |-> 4],
      [name |-> "Cruiser", size |-> 3], [name |-> "Submarine", size |-> 3],
      [name |-> "Destroyer", size |-> 2]>>

ShipNames == [i \in 1..5 |-> BATTLESHIP_SHIPS[i].name]

ShipSize(name) == BATTLESHIP_SHIPS[CHOOSE i \in 1..5 : BATTLESHIP_SHIPS[i].name = name].size

BSEmpty == [r \in 0..9 |-> [c \in 0..9 |-> 0]]

\* What start_game adds to a battleship session after the announcement.
BSStart(game) ==
    [boards |-> [u \in {game.challenger_id, game.opponent_id} |-> BSEmpty],
     ships |-> [u \in {game.challenger_id, game.opponent_id} |-> <<>>],
     placement_complete |-> [u \in {game.challenger_id, game.opponent_id} |-> FALSE]]
    @@ [game EXCEPT !.turn = game.challenger_id]

\* A coordinate typed as a letter and a number: letter counts from 'A' as
\* 0, number is the integer typed.  None is <<>>.
parse_bs_coords(coord) ==
    IF coord.letter \in 0..9 /\ coord.number - 1 \in 0..9
    THEN <<coord.number - 1, coord.letter>>
    ELSE <<>>

\* the cells under a ship of the given size from start_pos, in order
ShipCells(start_pos, orientation, size) ==
    [i \in 1..size |->
        IF orientation = "H" THEN <<start_pos[1], start_pos[2] + i - 1>>
        ELSE <<start_pos[1] + i - 1, start_pos[2]>>]

\* the placement loop leaves valid true
ValidPlacement(board, cells) ==
    \A i \in DOMAIN cells :
        /\ cells[i][1] \in 0..9
        /\ cells[i][2] \in 0..9
        /\ board[cells[i][1]][cells[i][2]] = 0

\* A coordinate pair is held as a Python tuple by the handler that builds
\* it and comes back from games.json as a list.
PyTuple(rc) == <<"tuple", rc[1], rc[2]>>

PyList(rc) == <<"list", rc[1], rc[2]>>

\* json.dump followed by json.load on the coordinates of one ship
json_coords(coords) == [i \in DOMAIN coords |-> PyList(<<coords[i][2], coords[i][3]>>)]

\* json.dump followed by json.load on the 'ships' of a session
json_ships(ships) ==
    [u \in DOMAIN ships |-> [n \in DOMAIN ships[u] |-> json_coords(ships[u][n])]]

\* the board with the cells of a ship set to 1
WithShip(board, cells) ==
    [r \in 0..9 |-> [c \in 0..9 |->
        IF \E i \in DOMAIN cells : cells[i] = <<r, c>> THEN 1 ELSE board[r][c]]]

\* What a player types while placing: two parts, a coordinate and an
\* orientation, or a text of one part.
PlacementText(letter, number, o) == [parts |-> 2, letter |-> letter, number |-> number, o |-> o]

PlacementTexts ==
    {PlacementText(0, 4, "H"), PlacementText(0, 5, "H"), PlacementText(0, 1, "V"),
     PlacementText(7, 5, "H"), PlacementText(9, 1, "V"), PlacementText(0, 11, "H"),
     PlacementText(0, 4, "D"), [PlacementText(0, 4, "H") EXCEPT !.parts = 1]}

\* context.user_data of a user with the keys of the placement conversation
BSUserData(ud, g, queue) ==
    [game_id |-> ud.game_id, player_role |-> ud.player_role,
     bs_game_id |-> g, bs_ships_to_place |-> queue]

\* The press of 'Begin Ship Placement', whose message start_game sent to
\* the player's private chat: the edit takes the button away.
bs_start_placement ==
    /\ h.pc = "idle"
    /\ \E u \in Players, g \in GameIds :
          /\ <<"placement", u>> \in live[g]
          /\ conv[u] = "end"
          /\ live' = [live EXCEPT ![g] = @ \ {<<"placement", u>>}]
          /\ IF Present(games_file, g) /\ ~games_file[g].placement_complete[u]
             THEN /\ user_data' = [user_data EXCEPT ![u] = BSUserData(@, g, ShipNames)]
                  /\ conv' = [conv EXCEPT ![u] = "bs_awaiting_placement"]
             ELSE UNCHANGED <<user_data, conv>>
    /\ UNCHANGED <<games_file, points_file, negative_tracker, clock, next_run, next_id,
                   h, s, audit>>
    /\ UNCHANGED ledger_vars

\* A text of player u in the placement conversation, up to the message the
\* handler sends next.  games_data[game_id] raises KeyError when the
\* session is gone.  w tells whether the fleet has just been completed.
BSPlace(u, text) ==
    LET g == user_data[u].bs_game_id
        gf1 == update_game_activity(games_file, g, clock)
        game == gf1[g]
        board == game.boards[u]
        ship_name == Head(user_data[u].bs_ships_to_place)
        start_pos == parse_bs_coords(text)
        cells == ShipCells(start_pos, text.o, ShipSize(ship_name))
        accepted == /\ text.parts = 2
                    /\ start_pos # <<>>
                    /\ text.o \in {"H", "V"}
                    /\ ValidPlacement(board, cells)
        ship_coords == [i \in DOMAIN cells |-> PyTuple(cells[i])]
        queue == Tail(user_data[u].bs_ships_to_place)
        games_data == [gf1 EXCEPT ![g].boards[u] = WithShip(board, cells),
                                  ![g].ships[u] = (ship_name :> ship_coords) @@ @,
                                  ![g].placement_complete[u] = (queue = <<>>) \/ @]
    IN  IF ~Present(games_file, g)
        THEN UNCHANGED <<games_file, user_data, h>>
        ELSE IF accepted
             THEN /\ games_file' = [games_data EXCEPT ![g].ships = json_ships(@)]
                  /\ user_data' = [user_data EXCEPT ![u].bs_ships_to_place = queue]
                  /\ h' = [HIdle EXCEPT !.pc = "bs_placed", !.gid = g, !.user = u,
                                        !.data = games_data,
                                        !.w = IF queue = <<>> THEN 1 ELSE 0]
             ELSE /\ games_file' = gf1
                  /\ user_data' = user_data
                  /\ h' = [HIdle EXCEPT !.pc = "bs_placed", !.gid = g, !.user = u,
                                        !.data = gf1]

bs_handle_placement ==
    /\ h.pc = "idle"
    /\ \E u \in Players, text \in PlacementTexts :
          /\ conv[u] = "bs_awaiting_placement"
          /\ user_data[u].bs_game_id # 0
          /\ BSPlace(u, text)
    /\ UNCHANGED <<points_file, negative_tracker, clock, next_run, next_id, s, conv,
                   live, audit>>
    /\ UNCHANGED ledger_vars

\* The message of bs_handle_placement has gone out and is tracked; after
\* the last ship the conversation ends, and the game is started in the
\* group if the handler's games_data has the other player's fleet complete.
bs_handle_placement_sent ==
    /\ h.pc = "bs_placed"
    /\ games_file' = track(games_file, h.gid, "bs_placement")
    /\ IF h.w = 1
       THEN /\ conv' = [conv EXCEPT ![h.user] = "end"]
            /\ h' = IF h.data[h.gid].placement_complete[Other(h.data[h.gid], h.user)]
                    THEN [HIdle EXCEPT !.pc = "bs_start_game_in_group", !.gid = h.gid]
                    ELSE HIdle
       ELSE /\ conv' = conv
            /\ h' = HIdle
    /\ UNCHANGED <<points_file, negative_tracker, clock, next_run, next_id, s,
                   user_data, live, audit>>
    /\ UNCHANGED ledger_vars

\* bs_start_game_in_group loads games_data and waits for Telegram: the
\* names of the players, then the public board message.
bs_start_game_in_group ==
    /\ h.pc = "bs_start_game_in_group"
    /\ h' = IF Present(games_file, h.gid)
            THEN [h EXCEPT !.pc = "bs_public_board", !.data = games_file]
            ELSE HIdle
    /\ UNCHANGED <<games_file, points_file, negative_tracker, clock, next_run, next_id,
                   s, conv, user_data, live, audit>>
    /\ UNCHANGED ledger_vars

\* The public board has been sent and tracked; bs_start_game_in_group puts
\* its message id into the games_data it loaded and saves that, then
\* bs_send_turn_message loads and waits for its message to go out.
bs_public_board ==
    /\ h.pc = "bs_public_board"
    /\ games_file' = h.data
    /\ audit' = Saved(audit, games_file, h.data)
    /\ h' = [HIdle EXCEPT !.pc = "bs_send_turn_message", !.gid = h.gid,
                          !.user = h.data[h.gid].turn]
    /\ UNCHANGED <<points_file, negative_tracker, clock, next_run, next_id, s, conv,
                   user_data, live>>
    /\ UNCHANGED ledger_vars

\* The private message with the attack keyboard has reached the player to
\* move and is tracked.
bs_send_turn_message ==
    /\ h.pc = "bs_send_turn_message"
    /\ games_file' = track(games_file, h.gid, "bs_turn")
    /\ live' = [live EXCEPT ![h.gid] = @ \cup {<<"bs_turn", h.user>>}]
    /\ h' = HIdle
    /\ UNCHANGED <<points_file, negative_tracker, clock, next_run, next_id, s, conv,
                   user_data, audit>>
    /\ UNCHANGED ledger_vars


\* ------------------------------------------------------ battleship attacks
check_bs_ship_sunk(board, ship_coords) ==
    \A i \in DOMAIN ship_coords : board[ship_coords[i][2]][ship_coords[i][3]] = 3

\* Python's x in coords: a tuple equals no list
PyIn(x, coords) == \E i \in DOMAIN coords : coords[i] = x

\* the ship the result text names as sunk after the shot at (r, c), by its
\* place in BATTLESHIP_SHIPS, 0 if the text names none
SunkNotice(ships, board, r, c) ==
    LET named == {i \in 1..5 : /\ ShipNames[i] \in DOMAIN ships
                               /\ PyIn(PyTuple(<<r, c>>), ships[ShipNames[i]])
                               /\ check_bs_ship_sunk(board, ships[ShipNames[i]])}
    IN  IF named = {} THEN 0 ELSE MinOf(named)

\* some ship of the fleet is sunk
any_sunk(ships, board) == \E n \in DOMAIN ships : check_bs_ship_sunk(board, ships[n])

all_sunk(ships, board) == \A n \in DOMAIN ships : check_bs_ship_sunk(board, ships[n])

BSRejected(gf, u, g, r, c) ==
    \/ ~Present(gf, g)
    \/ gf[g].status # "active"
    \/ gf[g].turn # u
    \/ gf[g].boards[Other(gf[g], u)][r][c] \in {2, 3}

\* The press of user u on the button of cell (r, c) of the attack keyboard
\* of session g, up to the next wait for Telegram.  The shot that sinks the
\* last ship is not saved; any other shot is saved with the turn passed on,
\* w being what the cell holds now and l the ship named as sunk.
BSAttack(u, g, r, c) ==
    LET gf1 == update_game_activity(games_file, g, clock)
        game == gf1[g]
        opponent_id == Other(game, u)
        rejected == BSRejected(gf1, u, g, r, c)
        target_val == game.boards[opponent_id][r][c]
        opponent_board == [game.boards[opponent_id] EXCEPT ![r][c] = IF target_val = 0 THEN 2 ELSE 3]
        over == all_sunk(game.ships[opponent_id], opponent_board)
    IN  /\ <<"bs_turn", u>> \in live[g]
        /\ Present(games_file, g) => games_file[g].game_type = "battleship"
        /\ CASE rejected ->
                   /\ games_file' = gf1
                   /\ h' = HIdle
             [] ~rejected /\ over ->
                   /\ games_file' = gf1
                   /\ h' = [HIdle EXCEPT !.pc = "game_over_load", !.gid = g, !.w = u,
                                         !.l = opponent_id]
             [] OTHER ->
                   /\ games_file' = [gf1 EXCEPT ![g].boards[opponent_id] = opponent_board,
                                                ![g].turn = opponent_id]
                   /\ h' = [HIdle EXCEPT !.pc = "bs_attack_sent", !.gid = g, !.user = u,
                                         !.w = opponent_board[r][c],
                                         !.l = IF target_val = 1
                                               THEN SunkNotice(game.ships[opponent_id],
                                                               opponent_board, r, c)
                                               ELSE 0]
        /\ live' = IF Inactive(gf1, g) \/ (~rejected /\ over)
                   THEN [live EXCEPT ![g] = @ \ {<<"bs_turn", u>>}]
                   ELSE live
        /\ audit' = IF rejected THEN audit ELSE Moved(audit, g, u)
        /\ UNCHANGED <<points_file, negative_tracker, clock, next_run, next_id, s, conv,
                       user_data>>
        /\ UNCHANGED ledger_vars

\* the cells the players fire at
AttackCells == {<<3, 2>>, <<4, 0>>, <<4, 1>>, <<0, 0>>, <<9, 9>>}

bs_attack_handler ==
    /\ h.pc = "idle"
    /\ \E u \in Users, g \in GameIds, rc \in AttackCells : BSAttack(u, g, rc[1], rc[2])

\* The result of the shot has gone out: the public board is edited, the
\* attacker's keyboard gives way to the result, the victim is told, and
\* bs_send_turn_message loads games_data for the keyboard of the next turn.
bs_attack_sent ==
    /\ h.pc = "bs_attack_sent"
    /\ live' = [live EXCEPT ![h.gid] = @ \ {<<"bs_turn", h.user>>}]
    /\ h' = IF Present(games_file, h.gid)
            THEN [HIdle EXCEPT !.pc = "bs_send_turn_message", !.gid = h.gid,
                               !.user = games_file[h.gid].turn]
            ELSE HIdle
    /\ UNCHANGED <<games_file, points_file, negative_tracker, clock, next_run, next_id,
                   s, conv, user_data, audit>>
    /\ UNCHANGED ledger_vars

\* ---------------------------------------------- the placement of the fleets
\* the first k ships of the fleet in rows 0 to k - 1 from column A, as
\* games.json holds them
FleetRows(k) ==
    [n \in {ShipNames[i] : i \in 1..k} |->
        LET i == CHOOSE j \in 1..k : ShipNames[j] = n
        IN  json_coords([x \in 1..BATTLESHIP_SHIPS[i].size |-> PyTuple(<<i - 1, x - 1>>)])]

\* the board that holds the ships of a dict of ships and nothing else
BoardOf(ships) ==
    [r \in 0..9 |-> [c \in 0..9 |->
        IF \E n \in DOMAIN ships : \E i \in DOMAIN ships[n] :
              ships[n][i][2] = r /\ ships[n][i][3] = c
        THEN 1 ELSE 0]]

\* the ships the players have placed when the placement is followed: both
\* the three largest, or the opponent all five and the challenger three or
\* none yet
PlacedAtStart ==
    {placed \in [Players -> 0..5] : <<placed[1], placed[2]>> \in {<<3, 3>>, <<3, 5>>, <<0, 5>>}}

\* Session 1 is a battleship game of user 1 against user 2 that start_game
\* has started five minutes ago.  Each player either has not yet pressed
\* 'Begin Ship Placement' or has placed the three largest ships then.
InitShips ==
    /\ LedgerIdle
    /\ \E placed \in PlacedAtStart :
          /\ games_file = [g \in GameIds |->
                IF g # 1 THEN NoGame
                ELSE [BSStart([NewSession(1, 2, 0, FALSE, 0) EXCEPT
                                  !.status = "active",
                                  !.game_type = "battleship",
                                  !.challenger_stake = Points(MaxStake),
                                  !.opponent_stake = Points(MaxStake),
                                  !.messages_to_delete = TrackedInPlay \ {"board"}])
                      EXCEPT !.ships = [u \in Players |-> FleetRows(placed[u])],
                             !.boards = [u \in Players |-> BoardOf(FleetRows(placed[u]))],
                             !.placement_complete = [u \in Players |-> placed[u] = 5]]]
          /\ conv = [u \in Users |->
                        IF u \in Players /\ placed[u] \in 1..4 THEN "bs_awaiting_placement"
                        ELSE "end"]
          /\ user_data = [u \in Users |->
                LET ud == CASE u = 1 -> [game_id |-> 1, player_role |-> "none"]
                            [] u = 2 -> [game_id |-> 1, player_role |-> "opponent"]
                            [] OTHER -> NoUserData
                IN  IF u \in Players /\ placed[u] > 0
                    THEN BSUserData(ud, 1, SubSeq(ShipNames, placed[u] + 1, 5))
                    ELSE BSUserData(ud, 0, <<>>)]
          /\ live = [g \in GameIds |->
                        IF g = 1 THEN {<<"placement", u>> : u \in {p \in Players : placed[p] = 0}}
                        ELSE {}]
    /\ points_file = [u \in Users |-> StartBalance]
    /\ negative_tracker = [u \in Users |-> 0]
    /\ clock = WarnAfter
    /\ next_run = WarnAfter + TimeStep
    /\ next_id = 2
    /\ h = HIdle
    /\ s = SIdle
    /\ audit = [g \in GameIds |->
                   IF g = 1 THEN [NoAudit EXCEPT !.ch = 1, !.op = 2, !.started = TRUE]
                   ELSE NoAudit]

NextShips ==
    \/ bs_start_placement \/ bs_handle_placement \/ bs_handle_placement_sent
    \/ bs_start_game_in_group \/ bs_public_board \/ bs_send_turn_message
    \/ check_game_inactivity \/ handle_game_cancellation
    \/ inactivity_warning \/ scheduler_delete_tracked_messages
    \/ Advance

SpecShips == InitShips /\ [][NextShips]_vars

\* ---------------------------------------------------------------- C32
\* the cells a ship of the given size covers from the cell typed, as a set
Footprint(text, size) ==
    {<<text.number - 1 + (IF text.o = "V" THEN k ELSE 0),
       text.letter + (IF text.o = "H" THEN k ELSE 0)>> : k \in 0..(size - 1)}

\* the text names a cell of the grid and an orientation, and every cell of
\* the ship is inside the grid and is water on the board
FitsOnBoard(board, text, size) ==
    /\ text.parts = 2
    /\ text.o \in {"H", "V"}
    /\ text.letter \in 0..9
    /\ text.number \in 1..10
    /\ \A rc \in Footprint(text, size) :
          rc \in (0..9) \X (0..9) /\ board[rc[1]][rc[2]] = 0

ShipCellsOn(board) == {rc \in (0..9) \X (0..9) : board[rc[1]][rc[2]] \in {1, 3}}

CoordsOf(coords) == {<<coords[i][2], coords[i][3]>> : i \in DOMAIN coords}

\* the board and the ships of player u hold the fleet: the five ships of
\* sizes 5, 4, 3, 3, 2 on 17 cells, each ship in a line of its size
HoldsFleet(game, u) ==
    /\ DOMAIN game.ships[u] = {"Carrier", "Battleship", "Cruiser", "Submarine", "Destroyer"}
    /\ \A i \in 1..5 :
          Cardinality(CoordsOf(game.ships[u][ShipNames[i]])) = <<5, 4, 3, 3, 2>>[i]
    /\ Cardinality(ShipCellsOn(game.boards[u])) = 17
    /\ ShipCellsOn(game.boards[u]) = UNION {CoordsOf(game.ships[u][n]) : n \in DOMAIN game.ships[u]}

\* C32: a placement is accepted only if every segment of the ship lies
\* inside the 10x10 grid on a cell no ship occupies, and then puts the ship
\* on exactly these cells; a rejected placement leaves board, ships and the
\* queue of ships to place as they are; the board of a player whose
\* placement is complete holds exactly the fleet of sizes 5, 4, 3, 3, 2 on
\* 17 cells; the game is started in the group only when both players have
\* placed all their ships.
C32_PlacementOfTheFleet ==
    /\ [](\A g \in GameIds, u \in Players :
             (Present(games_file, g) /\ games_file[g].game_type = "battleship"
                 /\ games_file[g].placement_complete[u])
                => HoldsFleet(games_file[g], u))
    /\ [][/\ \A u \in Players, text \in PlacementTexts :
                (/\ h.pc = "idle"
                 /\ conv[u] = "bs_awaiting_placement"
                 /\ Present(games_file, user_data[u].bs_game_id)
                 /\ BSPlace(u, text)) =>
                   LET g == user_data[u].bs_game_id
                       game == games_file[g]
                       queue == user_data[u].bs_ships_to_place
                       size == <<5, 4, 3, 3, 2>>[6 - Len(queue)]
                   IN  IF FitsOnBoard(game.boards[u], text, size)
                       THEN /\ ShipCellsOn(games_file'[g].boards[u])
                                  = ShipCellsOn(game.boards[u]) \cup Footprint(text, size)
                            /\ CoordsOf(games_file'[g].ships[u][Head(queue)])
                                  = Footprint(text, size)
                            /\ user_data'[u].bs_ships_to_place = Tail(queue)
                       ELSE /\ games_file'[g].boards = game.boards
                            /\ games_file'[g].ships = game.ships
                            /\ games_file'[g].placement_complete = game.placement_complete
                            /\ user_data' = user_data
          /\ h'.pc = "bs_start_game_in_group" =>
                \A u \in Players :
                   /\ user_data[u].bs_game_id = h'.gid
                   /\ user_data[u].bs_ships_to_place = <<>>]_vars

\* ------------------------------------------------- a battleship game in play
\* the board of a fleet in rows 0 to 4 whose cells are hit but for the last
\* cell of the Submarine and the two of the Destroyer
BoardLate ==
    [r \in 0..9 |-> [c \in 0..9 |->
        IF BoardOf(FleetRows(5))[r][c] = 0 THEN 0
        ELSE IF <<r, c>> \in {<<3, 2>>, <<4, 0>>, <<4, 1>>} THEN 1 ELSE 3]]

\* Session 1 is a battleship game of user 1 against user 2, both fleets
\* placed in rows 0 to 4 and the challenger to move with the attack
\* keyboard in the private chat: no shot has been fired yet, or each
\* player has hit 14 of the 17 cells of the other.
InitAttack ==
    /\ LedgerIdle
    /\ \E board \in {BoardOf(FleetRows(5)), BoardLate} :
          games_file = [g \in GameIds |->
              IF g # 1 THEN NoGame
              ELSE [BSStart([NewSession(1, 2, 0, FALSE, 0) EXCEPT
                                !.status = "active",
                                !.game_type = "battleship",
                                !.challenger_stake = Points(MaxStake),
                                !.opponent_stake = Points(MaxStake),
                                !.messages_to_delete = (TrackedInPlay \ {"board"})
                                                          \cup {"bs_placement", "bs_turn"}])
                    EXCEPT !.ships = [u \in Players |-> FleetRows(5)],
                           !.boards = [u \in Players |-> board],
                           !.placement_complete = [u \in Players |-> TRUE]]]
    /\ points_file = [u \in Users |-> StartBalance]
    /\ negative_tracker = [u \in Users |-> 0]
    /\ clock = WarnAfter
    /\ next_run = WarnAfter + TimeStep
    /\ next_id = 2
    /\ h = HIdle
    /\ s = SIdle
    /\ conv = [u \in Users |-> "end"]
    /\ user_data = [u \in Users |->
          LET ud == CASE u = 1 -> [game_id |-> 1, player_role |-> "none"]
                      [] u = 2 -> [game_id |-> 1, player_role |-> "opponent"]
                      [] OTHER -> NoUserData
          IN  BSUserData(ud, IF u \in Players THEN 1 ELSE 0, <<>>)]
    /\ live = [g \in GameIds |-> IF g = 1 THEN {<<"bs_turn", 1>>} ELSE {}]
    /\ audit = [g \in GameIds |->
                   IF g = 1 THEN [NoAudit EXCEPT !.ch = 1, !.op = 2, !.started = TRUE]
                   ELSE NoAudit]

NextAttack ==
    \/ bs_attack_handler \/ bs_attack_sent \/ bs_send_turn_message
    \/ handle_game_over_load \/ handle_game_over \/ delete_tracked_messages
    \/ check_game_inactivity \/ handle_game_cancellation
    \/ inactivity_warning \/ scheduler_delete_tracked_messages
    \/ Advance

SpecAttack == InitAttack /\ [][NextAttack]_vars

\* ---------------------------------------------------------------- C33
\* the board after a shot at the cell (r, c): water turns to 2, a ship
\* segment to 3
Shot(board, r, c) ==
    [x \in 0..9 |-> [y \in 0..9 |->
        IF <<x, y>> = <<r, c>> THEN (IF board[r][c] = 0 THEN 2 ELSE 3) ELSE board[x][y]]]

Unhit(board) == {rc \in (0..9) \X (0..9) : board[rc[1]][rc[2]] = 1}

\* user u, whose turn it is in the active battleship session g, presses
\* the button of a cell not fired at before
AcceptedAttack(u, g, r, c) ==
    /\ h.pc = "idle"
    /\ Present(games_file, g)
    /\ games_file[g].status = "active"
    /\ games_file[g].game_type = "battleship"
    /\ games_file[g].turn = u
    /\ games_file[g].boards[Other(games_file[g], u)][r][c] \in {0, 1}
    /\ BSAttack(u, g, r, c)

\* C33: an accepted attack ends the game exactly when after it no ship
\* segment of the defender is left unhit; it then declares the attacker
\* the winner and goes into the settlement with the defender as the loser.
C33_EndsWhenFleetIsSunk ==
    [][\A u \in Users, g \in GameIds, rc \in AttackCells :
          AcceptedAttack(u, g, rc[1], rc[2]) =>
             LET defender == Other(games_file[g], u)
                 after == Shot(games_file[g].boards[defender], rc[1], rc[2])
             IN  /\ (h'.pc = "game_over_load") <=> (Unhit(after) = {})
                 /\ h'.pc = "game_over_load" =>
                       h'.gid = g /\ h'.w = u /\ h'.l = defender]_vars

\* the settlement of a battleship game is about to run, the defender's
\* board holding one last unhit segment in the store
C33_Witness ==
    /\ h.pc = "game_over_load"
    /\ games_file[h.gid].game_type = "battleship"
    /\ Cardinality(Unhit(games_file[h.gid].boards[h.l])) = 1

\* ---------------------------------------------------------------- C34
\* the ships of a fleet, by their place in BATTLESHIP_SHIPS, that hold the
\* cell (r, c)
ShipsAt(ships, r, c) ==
    {i \in 1..5 : ShipNames[i] \in DOMAIN ships /\ <<r, c>> \in CoordsOf(ships[ShipNames[i]])}

\* C34: an accepted attack on a cell that holds a ship segment stores the
\* cell as hit, and when it leaves no segment of the ship of that cell
\* unhit (the game going on) its result names that ship as sunk; a result
\* names a ship as sunk in no other case.
C34_HitAndSunkNotice ==
    [][\A u \in Users, g \in GameIds, rc \in AttackCells :
          (/\ AcceptedAttack(u, g, rc[1], rc[2])
           /\ h'.pc = "bs_attack_sent") =>
             LET defender == Other(games_file[g], u)
                 board == games_file[g].boards[defender]
                 after == games_file'[g].boards[defender]
                 ships == games_file[g].ships[defender]
                 sunk == {i \in ShipsAt(ships, rc[1], rc[2]) :
                             CoordsOf(ships[ShipNames[i]]) \cap Unhit(after) = {}}
             IN  /\ board[rc[1]][rc[2]] = 1 => after[rc[1]][rc[2]] = 3 /\ h'.w = 3
                 /\ board[rc[1]][rc[2]] = 1 => (sunk # {} => h'.l \in sunk)
                 /\ h'.l # 0 => (board[rc[1]][rc[2]] = 1 /\ h'.l \in sunk)]_vars

\* ------------------------------------------------- the start of a game
\* Session 1 is active as start_game leaves it (for battleship, as
\* bs_start_game_in_group leaves it once both fleets are placed), user 1
\* the challenger and user 2 the opponent, no move made yet.
InitFirst ==
    /\ LedgerIdle
    /\ \E game_type \in {"dice", "connect_four", "tictactoe", "battleship"}, rounds \in Rounds :
          LET game == [NewSession(1, 2, 0, FALSE, 0) EXCEPT
                          !.game_type = game_type,
                          !.challenger_stake = Points(MaxStake),
                          !.opponent_stake = Points(MaxStake),
                          !.messages_to_delete = TrackedInPlay \ {"board"}]
          IN  /\ game_type # "dice" => rounds = 3
              /\ games_file = [g \in GameIds |->
                    IF g # 1 THEN NoGame
                    ELSE CASE game_type = "dice" ->
                                 DiceStart([game EXCEPT !.rounds_to_play = rounds])
                           [] game_type = "battleship" ->
                                 [BSStart([game EXCEPT !.status = "active",
                                              !.messages_to_delete = @ \cup {"bs_placement", "bs_turn"}])
                                  EXCEPT !.ships = [u \in Players |-> FleetRows(5)],
                                         !.boards = [u \in Players |-> BoardOf(FleetRows(5))],
                                         !.placement_complete = [u \in Players |-> TRUE]]
                           [] OTHER ->
                                 [InitBoard(game, game_type) EXCEPT
                                     !.status = "active",
                                     !.messages_to_delete = @ \cup {"board"}]]
              /\ live = [g \in GameIds |->
                            IF g # 1 THEN {}
                            ELSE CASE game_type = "dice" -> {}
                                   [] game_type = "battleship" -> {<<"bs_turn", 1>>}
                                   [] OTHER -> {<<"board", 0>>}]
    /\ points_file = [u \in Users |-> StartBalance]
    /\ negative_tracker = [u \in Users |-> 0]
    /\ clock = 0
    /\ next_run = TimeStep
    /\ next_id = 2
    /\ h = HIdle
    /\ s = SIdle
    /\ conv = [u \in Users |-> "end"]
    /\ user_data = [u \in Users |->
          LET ud == CASE u = 1 -> [game_id |-> 1, player_role |-> "none"]
                      [] u = 2 -> [game_id |-> 1, player_role |-> "opponent"]
                      [] OTHER -> NoUserData
          IN  BSUserData(ud, 0, <<>>)]
    /\ audit = [g \in GameIds |->
                   IF g = 1 THEN [NoAudit EXCEPT !.ch = 1, !.op = 2, !.started = TRUE]
                   ELSE NoAudit]

\* connect four is followed through its first MaxFirstMoves moves
connect_four_first_moves ==
    /\ \A g \in GameIds :
          (Present(games_file, g) /\ games_file[g].game_type = "connect_four")
              => Pieces(games_file[g].board) < MaxFirstMoves
    /\ connect_four_move_handler

NextFirst ==
    \/ dice_roll_handler \/ dice_roll_save
    \/ tictactoe_move_handler \/ connect_four_first_moves
    \/ bs_attack_handler \/ bs_attack_sent \/ bs_send_turn_message
    \/ handle_game_over_load \/ handle_game_over
    \/ handle_game_draw_load \/ handle_game_draw
    \/ delete_tracked_messages

SpecFirst == InitFirst /\ [][NextFirst]_vars

\* ---------------------------------------------------------------- C35
\* no move has been made in the active session: the board holds no mark,
\* no cell has been fired at, no roll is stored in round 1 at 0 : 0
NoMoveYet(game) ==
    /\ game.status = "active"
    /\ CASE game.game_type = "tictactoe" -> game.board = TTTEmpty
         [] game.game_type = "connect_four" -> game.board = C4Empty
         [] game.game_type = "battleship" ->
               \A u \in DOMAIN game.boards : \A r \in 0..9, c \in 0..9 :
                   game.boards[u][r][c] \in {0, 1}
         [] game.game_type = "dice" ->
               /\ game.last_roll = NoRoll
               /\ game.current_round = 1
               /\ game.challenger_score = 0 /\ game.opponent_score = 0
         [] OTHER -> FALSE

\* C35: in an active session in which no move has been made the turn, for
\* the games that have one, is the challenger's; a move of anyone but the
\* challenger is rejected and leaves the board as it is, and the first
\* roll of a dice match that is taken is the challenger's.
C35_ChallengerMovesFirst ==
    [][\A g \in GameIds :
          (h.pc = "idle" /\ Present(games_file, g) /\ NoMoveYet(games_file[g])) =>
             LET game == games_file[g]
             IN  /\ game.game_type # "dice" => game.turn = game.challenger_id
                 /\ \A u \in Users \ {game.challenger_id} :
                       (\/ \E r \in 0..2, c \in 0..2 : TTTMove(u, g, r, c)
                        \/ \E col \in 0..6 : C4Move(u, g, col)
                        \/ \E rc \in AttackCells : BSAttack(u, g, rc[1], rc[2]))
                       => /\ h' = HIdle
                          /\ NoMoveYet(games_file'[g])
                          /\ games_file'[g].turn = game.turn
                 /\ (game.game_type = "dice" /\ h'.pc = "dice_roll" /\ h'.gid = g)
                       => h'.user = game.challenger_id]_vars

\* ---------------------------------------------------------------- C36
\* the add_user_points call of caller c returns in this step
Returns(c) == ad[c].pc # "idle" /\ ad'[c].pc = "idle"

\* C36: when an add_user_points call returns, every rule armed for its
\* user has its threshold above the user's balance; a call that takes the
\* balance from at or above the threshold of a rule to below it goes on to
\* notify the punishment of the first such rule.
C36_ArmedMeansBelow ==
    [][\A c \in Callers :
          /\ Returns(c) =>
                \A threshold \in punishment_status'[ad[c].user] :
                    threshold > points_file'[ad[c].user]
          /\ (ad[c].pc = "idle" /\ ad'[c].pc # "idle") =>
                LET crossed == {i \in DOMAIN punishments :
                                   /\ ad'[c].old >= punishments[i]
                                   /\ ad'[c].new < punishments[i]}
                IN  crossed # {} =>
                       /\ ad'[c].pc = "pun_member"
                       /\ ad'[c].rule = punishments[MinOf(crossed)]]_vars

\* ---------------------------------------------------------------- C37
\* C37: when the handler has dealt with an accepted dice roll, the stored
\* last_activity of the session is the time of the roll and warning_sent is
\* cleared; the scheduler cancels a session for inactivity only when its
\* last accepted roll, if any, is more than 420 s old.
C37_ActivityStored ==
    [][/\ (h.pc = "dice_roll" /\ h'.pc # "dice_roll") =>
             /\ games_file'[h.gid].last_activity = audit[h.gid].moved
             /\ ~games_file'[h.gid].warning_sent
       /\ (s.pc = "cancellation" /\ s' # s) =>
             \/ audit[s.gid].moved = 0
             \/ clock - audit[s.gid].moved > CancelAfter]_vars


\* ---------------------------------------------------------------- C38
\* this step is an accepted move in session g
AcceptedMoveIn(g) == audit'[g].flip # audit[g].flip

\* the stored session but for what update_game_activity writes
ButActivity(game) == [game EXCEPT !.last_activity = 0, !.warning_sent = FALSE]

\* the positions a move handler is in after a move that ends the game
Terminal == {"game_over_load", "game_draw_load", "c4_draw"}

\* C38: an accepted move in a session of tic-tac-toe, connect four or
\* battleship is never made by the player who made the accepted move before
\* it, and unless it ends the game it leaves the turn with the other player;
\* a press the handler turns down leaves board and turn as they were.
C38_TurnsAlternate ==
    [][\A g \in GameIds :
          /\ AcceptedMoveIn(g) =>
                /\ audit'[g].mover # audit[g].mover
                /\ h'.pc \notin Terminal =>
                      games_file'[g].turn = Other(games_file[g], audit'[g].mover)
          /\ ((tictactoe_move_handler \/ connect_four_move_handler \/ bs_attack_handler)
                 /\ ~AcceptedMoveIn(g)) =>
                ButActivity(games_file'[g]) = ButActivity(games_file[g])]_vars

\* ---------------------------------------------------------------- C39
\* the truth-or-dare session of id t has been stored and then deleted
TodDeleted(t) == t < tod_menu.next_id /\ tod_file[t].status = "absent"

\* C39: a truth-or-dare session is resolved at most once: its subject gets
\* the completion bonus once, or the timeout penalty once, or neither, never
\* both and never one of them twice; a session that has been deleted from
\* the store is never stored again.
C39_ResolvedOnce ==
    [][\A t \in TodIds :
          /\ notes'.awarded[t] + notes'.charged[t] <= 1
          /\ TodDeleted(t) => tod_file'[t].status = "absent"]_vars

\* ---------------------------------------------------------------- C40
\* the challenge of the session has been sent to the opponent and the
\* session has not ended
ChallengeSent(game) ==
    game.status \in {"pending_opponent_acceptance", "pending_opponent_stake", "active"}

\* C40: once the challenge of a session has been sent, no step changes its
\* game_type, and no game_selection step changes its board or its turn.
C40_GameStaysAsChosen ==
    [][\A g \in GameIds :
          (ChallengeSent(games_file[g]) /\ Present(games_file', g)) =>
             /\ games_file'[g].game_type = games_file[g].game_type
             /\ game_selection =>
                   /\ games_file'[g].board = games_file[g].board
                   /\ games_file'[g].turn = games_file[g].turn]_vars

====
